---- MODULE Spec2Model ----
(***************************************************************************)
(* Java Project Assistant MCP server: the five analysis tools, their       *)
(* line-oriented Java source parsers, the project aggregators and the      *)
(* report renderers.                                                       *)
(*                                                                         *)
(* Text is modelled as a sequence of tokens: a maximal run of word         *)
(* characters, a run of blanks (" "), a line break ("\n") or a punctuation *)
(* mark.  A line of a file is the token sequence between two line breaks.  *)
(*                                                                         *)
(* Several specifications share the variables:                             *)
(*   Spec       - one tool invocation against a project directory          *)
(*   SpecParse  - one pass of a source-file parser over one file           *)
(*   SpecAgg    - one fold of an aggregator over a list of files, followed *)
(*                by the renderers' ratio computations                     *)
(*   SpecSmell  - the smell detector over the lines of a file              *)
(*   SpecPom    - the dependency analysis of a pom.xml                     *)
(*   SpecArch   - the structure aggregator and its architecture patterns   *)
(*   SpecWalk   - the directory walk of a tool over a tree                 *)
(*   SpecServer - requests handled at once over the five tool instances    *)
(*   SpecTree   - the directory tree drawn for a wide and deep project     *)
(*   SpecPackage - the parsers over files with unusual package lines       *)
(*   SpecMetrics - the metrics pass over files of generated methods        *)
(*   SpecFile   - check_code_quality called with a filePath                *)
(***************************************************************************)
EXTENDS Integers, Sequences, FiniteSets, TLC

VARIABLES
    \* Spec: the project on disk, the module system of the build, the call
    fs, requireDefined, pc, call, result,
    \* SpecParse: which parser runs, the file, its parts, position, accumulators
    parser, src, parts, pos, rec,
    \* SpecAgg: which aggregator runs, the input files, position, model, report
    aggregator, inputs, idx, agg, report

vars == <<fs, requireDefined, pc, call, result,
          parser, src, parts, pos, rec,
          aggregator, inputs, idx, agg, report>>

toolVars  == <<fs, requireDefined, pc, call, result>>
parseVars == <<parser, src, parts, pos, rec>>
aggVars   == <<aggregator, inputs, idx, agg, report>>

(***************************************************************************)
(* Strings                                                                 *)
(***************************************************************************)

\* JavaScript white space, as far as the model's texts hold any
WhiteSpace == {" ", "\n"}

\* the marks that are no word characters (\w is [A-Za-z0-9_])
Punctuation == {"/**", "*/", "*", "//", "/*", "(", ")", ";", "{", "}", "=", ".",
                "@", "<", ">", "[", "]", ",", "$", "-", ":"}

IsWord(tok) == tok \notin WhiteSpace /\ tok \notin Punctuation

\* the characters of the class [\w<>\[\]]
IsTypeTok(tok) == IsWord(tok) \/ tok \in {"<", ">", "[", "]"}

RECURSIVE TrimStart(_)
TrimStart(s) ==
    IF s = <<>> THEN s
    ELSE IF Head(s) \in WhiteSpace THEN TrimStart(Tail(s)) ELSE s

RECURSIVE TrimEnd(_)
TrimEnd(s) ==
    IF s = <<>> THEN s
    ELSE IF s[Len(s)] \in WhiteSpace THEN TrimEnd(SubSeq(s, 1, Len(s) - 1)) ELSE s

\* String.prototype.trim
Trim(s) == TrimEnd(TrimStart(s))

\* words that end in a keyword ("subclass " includes "class ")
KeywordSuffixes == {<<"subclass", "class">>, <<"nonpublic", "public">>}

EndsWith(tok, kw) == tok = kw \/ <<tok, kw>> \in KeywordSuffixes

\* words that hold a keyword anywhere ("classes" includes "class")
KeywordInfixes == KeywordSuffixes \cup {<<"classes", "class">>, <<"interfaces", "interface">>,
                                        <<"imports", "import">>}

Contains(tok, kw) == tok = kw \/ <<tok, kw>> \in KeywordInfixes

\* line.includes(kw + ' '): the keyword directly followed by a blank
IncludesKw(line, kw) ==
    \E i \in 1..(Len(line) - 1) : EndsWith(line[i], kw) /\ line[i + 1] = " "

\* line.includes(kw) for a keyword or a mark
Includes(line, kw) == \E i \in 1..Len(line) : Contains(line[i], kw)

\* line.startsWith(kw + ' ')
StartsWithKw(line, kw) == Len(line) >= 2 /\ line[1] = kw /\ line[2] = " "

\* s.replace(tok, ''): the first occurrence only
RECURSIVE RemoveFirst(_, _)
RemoveFirst(s, tok) ==
    IF s = <<>> THEN s
    ELSE IF Head(s) = tok THEN Tail(s)
    ELSE <<Head(s)>> \o RemoveFirst(Tail(s), tok)

\* s.replace(kw + ' ', ''): the first occurrence of the keyword and its blank
RECURSIVE RemoveFirstKw(_, _)
RemoveFirstKw(s, kw) ==
    IF Len(s) < 2 THEN s
    ELSE IF s[1] = kw /\ s[2] = " " THEN SubSeq(s, 3, Len(s))
    ELSE <<Head(s)>> \o RemoveFirstKw(Tail(s), kw)

NoMatch == [ok |-> FALSE]

\* line.match(/kw\s+(\w+)/): the first capture of the leftmost match
MatchKwName(line, kw) ==
    LET hits == {i \in 1..(Len(line) - 2) :
                    EndsWith(line[i], kw) /\ line[i + 1] = " " /\ IsWord(line[i + 2])}
    IN  IF hits = {} THEN NoMatch
        ELSE LET i == CHOOSE h \in hits : \A g \in hits : h <= g
             IN  [ok |-> TRUE, name |-> line[i + 2]]

\* the visibility keyword a token ends in, by the order of the alternation
VisibilityOf(tok) ==
    IF EndsWith(tok, "public") THEN "public"
    ELSE IF EndsWith(tok, "private") THEN "private"
    ELSE IF EndsWith(tok, "protected") THEN "protected"
    ELSE "none"

\* the end of the run of [\w<>\[\]] tokens that starts at i (i - 1 if none)
RECURSIVE TypeRunEnd(_, _)
TypeRunEnd(line, i) ==
    IF i <= Len(line) /\ IsTypeTok(line[i]) THEN TypeRunEnd(line, i + 1) ELSE i - 1

\* /<keyword>\s+([\w<>\[\]]+)\s+(\w+)\s*<one of enders>/ matched from token i,
\* the keyword being one of keywords
SignatureAt(line, i, keywords, enders) ==
    LET e == TypeRunEnd(line, i + 2)
        n == e + 2
        t == IF n + 1 <= Len(line) /\ line[n + 1] = " " THEN n + 2 ELSE n + 1
    IN  /\ i + 1 <= Len(line)
        /\ VisibilityOf(line[i]) \in keywords
        /\ line[i + 1] = " "
        /\ e >= i + 2
        /\ e + 1 <= Len(line) /\ line[e + 1] = " "
        /\ n <= Len(line) /\ IsWord(line[n])
        /\ t <= Len(line) /\ line[t] \in enders

\* the captures of the leftmost match of the signature pattern
MatchSignature(line, keywords, enders) ==
    LET hits == {i \in 1..Len(line) : SignatureAt(line, i, keywords, enders)}
    IN  IF hits = {} THEN NoMatch
        ELSE LET i == CHOOSE h \in hits : \A g \in hits : h <= g
                 e == TypeRunEnd(line, i + 2)
             IN  [ok         |-> TRUE,
                  visibility |-> VisibilityOf(line[i]),
                  type       |-> SubSeq(line, i + 2, e),
                  name       |-> line[e + 2]]

HasVisibility(line) ==
    IncludesKw(line, "public") \/ IncludesKw(line, "private") \/ IncludesKw(line, "protected")

StartsWith(line, toks) == line # <<>> /\ line[1] \in toks

(***************************************************************************)
(* DocumentationGenerator: the source-file parser                          *)
(***************************************************************************)

DocParserInit ==
    [package |-> <<>>, className |-> "", type |-> "class", imports |-> <<>>,
     methods |-> <<>>, fields |-> <<>>, javadoc |-> <<>>, currentJavadoc |-> <<>>]

\* the text after "package " or "import " up to the semicolon, trimmed
AfterKeyword(line, kw) == Trim(RemoveFirst(RemoveFirstKw(line, kw), ";"))

\* the keyword the type branch takes the line for
TypeKeyword(line) ==
    IF IncludesKw(line, "interface") THEN "interface"
    ELSE IF IncludesKw(line, "enum") THEN "enum"
    ELSE "class"

IsTypeLine(line) ==
    IncludesKw(line, "class") \/ IncludesKw(line, "interface") \/ IncludesKw(line, "enum")

Signature(m, javadoc) ==
    IF m.ok
    THEN [ok |-> TRUE, visibility |-> m.visibility, type |-> m.type,
          name |-> m.name, javadoc |-> Trim(javadoc)]
    ELSE NoMatch

extractMethod(line, javadoc) ==
    Signature(MatchSignature(line, {"public", "private", "protected"}, {"("}), javadoc)

extractField(line, javadoc) ==
    Signature(MatchSignature(line, {"public", "private", "protected"}, {"=", ";"}), javadoc)

DocPackageLine(st, line) ==
    IF StartsWithKw(line, "package")
    THEN [st EXCEPT !.package = AfterKeyword(line, "package")]
    ELSE st

DocImportLine(st, line) ==
    IF StartsWithKw(line, "import")
    THEN [st EXCEPT !.imports = Append(@, AfterKeyword(line, "import"))]
    ELSE st

\* the name is kept when the pattern does not match
NameOr(m, className) == IF m.ok THEN m.name ELSE className

DocTypeLine(st, line) ==
    IF IsTypeLine(line)
    THEN [st EXCEPT !.type = TypeKeyword(line),
                    !.className = NameOr(MatchKwName(line, TypeKeyword(line)), @),
                    !.javadoc = st.currentJavadoc,
                    !.currentJavadoc = <<>>]
    ELSE st

DocAddMethod(st, m) ==
    IF m.ok
    THEN [st EXCEPT !.methods = Append(@, [visibility |-> m.visibility,
                                           returnType |-> m.type,
                                           name |-> m.name,
                                           javadoc |-> m.javadoc]),
                    !.currentJavadoc = <<>>]
    ELSE st

DocMethodLine(st, line) ==
    IF Includes(line, "(") /\ Includes(line, ")") /\ HasVisibility(line)
    THEN DocAddMethod(st, extractMethod(line, st.currentJavadoc))
    ELSE st

DocAddField(st, m) ==
    IF m.ok
    THEN [st EXCEPT !.fields = Append(@, [visibility |-> m.visibility,
                                          type |-> m.type,
                                          name |-> m.name,
                                          javadoc |-> m.javadoc]),
                    !.currentJavadoc = <<>>]
    ELSE st

DocFieldLine(st, line) ==
    IF Includes(line, ";") /\ ~Includes(line, "(") /\ HasVisibility(line)
    THEN DocAddField(st, extractField(line, st.currentJavadoc))
    ELSE st

\* the Javadoc buffer: a comment line is appended, any other line that is
\* neither blank nor a line comment empties it
DocJavadocLine(st, line) ==
    IF StartsWith(line, {"/**", "*", "*/"}) \/ Includes(line, "*/")
    THEN [st EXCEPT !.currentJavadoc = @ \o line \o <<"\n">>]
    ELSE IF ~StartsWith(line, {"//"}) /\ line # <<>>
    THEN [st EXCEPT !.currentJavadoc = <<>>]
    ELSE st

DocAnalyzeTrimmed(st, line) ==
    DocJavadocLine(
        DocFieldLine(
            DocMethodLine(
                DocTypeLine(DocImportLine(DocPackageLine(st, line), line), line),
                line),
            line),
        line)

\* one pass of the loop body of analyzeJavaFile over the raw line
DocAnalyzeLine(st, raw) == DocAnalyzeTrimmed(st, Trim(raw))

(***************************************************************************)
(* ProjectStructureAnalyzer: the source-file parser                        *)
(***************************************************************************)

StructParserInit ==
    [package |-> <<>>, className |-> "", type |-> "class",
     methods |-> <<>>, fields |-> <<>>]

StructPackageLine(st, trimmed) ==
    IF StartsWithKw(trimmed, "package")
    THEN [st EXCEPT !.package = AfterKeyword(trimmed, "package")]
    ELSE st

StructTypeLine(st, trimmed) ==
    IF IsTypeLine(trimmed)
    THEN [st EXCEPT !.type = TypeKeyword(trimmed),
                    !.className = NameOr(MatchKwName(trimmed, TypeKeyword(trimmed)), @)]
    ELSE st

StructAddMethod(st, m) ==
    IF m.ok
    THEN [st EXCEPT !.methods = Append(@, [visibility |-> m.visibility,
                                           returnType |-> m.type,
                                           name |-> m.name])]
    ELSE st

StructMethodLine(st, trimmed) ==
    IF Includes(trimmed, "(") /\ Includes(trimmed, ")") /\ HasVisibility(trimmed)
    THEN StructAddMethod(st, MatchSignature(trimmed, {"public", "private", "protected"},
                                            {"("}))
    ELSE st

StructAddField(st, m) ==
    IF m.ok
    THEN [st EXCEPT !.fields = Append(@, [visibility |-> m.visibility,
                                          type |-> m.type,
                                          name |-> m.name])]
    ELSE st

StructFieldLine(st, trimmed) ==
    IF Includes(trimmed, ";") /\ ~Includes(trimmed, "(") /\ HasVisibility(trimmed)
    THEN StructAddField(st, MatchSignature(trimmed, {"public", "private", "protected"},
                                           {"=", ";"}))
    ELSE st

StructAnalyzeTrimmed(st, trimmed) ==
    StructFieldLine(
        StructMethodLine(StructTypeLine(StructPackageLine(st, trimmed), trimmed), trimmed),
        trimmed)

\* one pass of the loop body of analyzeJavaFile over the raw line
StructAnalyzeLine(st, raw) == StructAnalyzeTrimmed(st, Trim(raw))

(***************************************************************************)
(* TestGenerator: the source-file parser                                   *)
(***************************************************************************)

TestParserInit ==
    [packageName |-> <<>>, className |-> "", publicMethods |-> <<>>,
     dependencies |-> <<>>]

\* the capture of /import\s+([^;]+)/ on a line that starts with "import "
RECURSIVE UpToSemicolon(_)
UpToSemicolon(s) ==
    IF s = <<>> \/ Head(s) = ";" THEN <<>> ELSE <<Head(s)>> \o UpToSemicolon(Tail(s))

TestPackageLine(st, trimmed) ==
    IF StartsWithKw(trimmed, "package")
    THEN [st EXCEPT !.packageName = AfterKeyword(trimmed, "package")]
    ELSE st

TestSetClassName(st, m) == IF m.ok THEN [st EXCEPT !.className = m.name] ELSE st

\* the class name is taken once: a later line with "class " leaves it
TestClassLine(st, trimmed) ==
    IF IncludesKw(trimmed, "class") /\ st.className = ""
    THEN TestSetClassName(st, MatchKwName(trimmed, "class"))
    ELSE st

TestAddMethod(st, m) ==
    IF m.ok THEN [st EXCEPT !.publicMethods = Append(@, m.name)] ELSE st

TestMethodLine(st, trimmed) ==
    IF IncludesKw(trimmed, "public") /\ Includes(trimmed, "(") /\ ~Includes(trimmed, "class")
    THEN TestAddMethod(st, MatchSignature(trimmed, {"public"}, {"("}))
    ELSE st

TestAddDependency(st, target) ==
    IF target # <<>> THEN [st EXCEPT !.dependencies = Append(@, target)] ELSE st

TestImportLine(st, trimmed) ==
    IF StartsWithKw(trimmed, "import")
    THEN TestAddDependency(st, UpToSemicolon(SubSeq(trimmed, 3, Len(trimmed))))
    ELSE st

TestAnalyzeTrimmed(st, trimmed) ==
    TestImportLine(
        TestMethodLine(TestClassLine(TestPackageLine(st, trimmed), trimmed), trimmed),
        trimmed)

\* one pass of the loop body of analyzeJavaClass over the raw line
TestAnalyzeLine(st, raw) == TestAnalyzeTrimmed(st, Trim(raw))

(***************************************************************************)
(* Java source lines and files the parsers are run on                      *)
(***************************************************************************)

LPackage      == <<"package", " ", "com", ".", "example", ";">>
LImport       == <<"import", " ", "java", ".", "util", ".", "List", ";">>
LJavadocOne   == <<"/**", " ", "Stores", " ", "users", " ", "*/">>
LJavadocOpen  == <<"/**">>
LJavadocText  == <<" ", "*", " ", "Stores", " ", "users">>
LJavadocClass == <<" ", "*", " ", "This", " ", "class", " ", "stores", " ", "users">>
LJavadocIface == <<" ", "*", " ", "Repository", " ", "interface", " ", "for", " ", "users">>
LJavadocClose == <<" ", "*/">>
LBlank        == <<>>
LLineComment  == <<"//", " ", "note">>
LStatement    == <<"int", " ", "limit", " ", "=", " ", "5", ";">>
LAnnotation   == <<"@", "Deprecated">>
LStatementCmt == <<"int", " ", "limit", ";", " ", "/*", " ", "cap", " ", "*/">>
LClassUser    == <<"public", " ", "class", " ", "User", " ", "{">>
LIfaceRepo    == <<"public", " ", "interface", " ", "UserRepository", " ", "{">>
LEnumColor    == <<"enum", " ", "Color", " ", "{">>
LClassOrder   == <<"class", " ", "Order", " ", "{">>
LIfaceAudit   == <<"interface", " ", "Audit", " ", "{">>
LMethod       == <<" ", "public", " ", "void", " ", "run", "(", ")", " ", "{">>
LField        == <<" ", "private", " ", "List", "<", "User", ">", " ", "users", ";">>
LCloseBrace   == <<"}">>

Prefixes == {<<>>, <<LPackage>>, <<LPackage, LImport>>}

JavadocBlocks == {<<>>,
                  <<LJavadocOne>>,
                  <<LJavadocOpen, LJavadocText, LJavadocClose>>,
                  <<LJavadocOpen, LJavadocClass, LJavadocClose>>,
                  <<LJavadocOpen, LJavadocIface, LJavadocClose>>}

\* what stands between the Javadoc block and the declaration
Gaps == {<<>>, <<LBlank>>, <<LLineComment>>, <<LStatement>>, <<LAnnotation>>,
         <<LStatementCmt>>}

TypeDeclarations == {LClassUser, LIfaceRepo, LEnumColor}

Declarations == TypeDeclarations \cup {LMethod, LField}

Suffixes == {<<>>, <<LCloseBrace>>, <<LMethod, LCloseBrace>>, <<LClassOrder>>,
             <<LIfaceAudit>>}

SourceParts == [prefix : Prefixes, block : JavadocBlocks, gap : Gaps,
                decl : Declarations, suffix : Suffixes]

\* content.split('\n') of the file put together from its parts
LinesOf(p) == p.prefix \o p.block \o p.gap \o <<p.decl>> \o p.suffix

Parsers == {"documentation", "structure", "tests"}

ParserInit(which) ==
    IF which = "documentation" THEN DocParserInit
    ELSE IF which = "structure" THEN StructParserInit
    ELSE TestParserInit

\* the whole loop of a parser over the lines of a file: loop.i is the line the
\* loop is at, loop.st what the passes before it left
RECURSIVE DocLoop(_, _)
DocLoop(loop, lines) ==
    IF loop.i > Len(lines) THEN loop.st
    ELSE DocLoop([i |-> loop.i + 1, st |-> DocAnalyzeLine(loop.st, lines[loop.i])], lines)

DocFold(st, lines) == DocLoop([i |-> 1, st |-> st], lines)

RECURSIVE StructLoop(_, _)
StructLoop(loop, lines) ==
    IF loop.i > Len(lines) THEN loop.st
    ELSE StructLoop([i |-> loop.i + 1, st |-> StructAnalyzeLine(loop.st, lines[loop.i])],
                    lines)

StructFold(st, lines) == StructLoop([i |-> 1, st |-> st], lines)

RECURSIVE TestLoop(_, _)
TestLoop(loop, lines) ==
    IF loop.i > Len(lines) THEN loop.st
    ELSE TestLoop([i |-> loop.i + 1, st |-> TestAnalyzeLine(loop.st, lines[loop.i])], lines)

TestFold(st, lines) == TestLoop([i |-> 1, st |-> st], lines)

\* DocumentationGenerator.analyzeJavaFile
DocReturn(st, filePath) ==
    [package |-> st.package, className |-> st.className, type |-> st.type,
     imports |-> st.imports, methods |-> st.methods, fields |-> st.fields,
     javadoc |-> st.javadoc, filePath |-> filePath]

DocAnalyzeJavaFile(lines, filePath) == DocReturn(DocFold(DocParserInit, lines), filePath)

\* ProjectStructureAnalyzer.analyzeJavaFile
StructReturn(st, filePath) ==
    [package |-> st.package, className |-> st.className, type |-> st.type,
     methods |-> st.methods, fields |-> st.fields, filePath |-> filePath]

StructAnalyzeJavaFile(lines, filePath) ==
    StructReturn(StructFold(StructParserInit, lines), filePath)

\* TestGenerator.analyzeJavaClass
analyzeJavaClass(lines) == TestFold(TestParserInit, lines)

(***************************************************************************)
(* SpecParse: a parser reads one file, a line per step                     *)
(***************************************************************************)

ToolIdle == /\ fs = "none" /\ requireDefined = TRUE /\ pc = "off"
            /\ call = "none" /\ result = "none"

ParseIdle == /\ parser = "none" /\ src = <<>> /\ parts = "none"
             /\ pos = 0 /\ rec = "none"

AggIdle == /\ aggregator = "none" /\ inputs = <<>> /\ idx = 0
           /\ agg = "none" /\ report = "none"

InitParse ==
    /\ parser \in Parsers
    /\ parts \in SourceParts
    /\ src = LinesOf(parts)
    /\ pos = 1
    /\ rec = ParserInit(parser)
    /\ ToolIdle
    /\ AggIdle

DocParseLine ==
    /\ parser = "documentation"
    /\ pos <= Len(src)
    /\ rec' = DocAnalyzeLine(rec, src[pos])
    /\ pos' = pos + 1
    /\ UNCHANGED <<parser, src, parts, toolVars, aggVars>>

StructParseLine ==
    /\ parser = "structure"
    /\ pos <= Len(src)
    /\ rec' = StructAnalyzeLine(rec, src[pos])
    /\ pos' = pos + 1
    /\ UNCHANGED <<parser, src, parts, toolVars, aggVars>>

TestParseLine ==
    /\ parser = "tests"
    /\ pos <= Len(src)
    /\ rec' = TestAnalyzeLine(rec, src[pos])
    /\ pos' = pos + 1
    /\ UNCHANGED <<parser, src, parts, toolVars, aggVars>>

NextParse == DocParseLine \/ StructParseLine \/ TestParseLine

SpecParse == InitParse /\ [][NextParse]_vars

ParseDone == parser \in Parsers /\ pos > Len(src)

(***************************************************************************)
(* JavaScript numbers, as far as the reports compute any                   *)
(***************************************************************************)

NaN      == [kind |-> "NaN"]
Infinity == [kind |-> "Infinity"]
JsNum(n) == [kind |-> "finite", num |-> n, den |-> 1]

IsZero(x) == x.kind = "finite" /\ x.num = 0

\* x / y for numbers that are not negative
JsDiv(x, y) ==
    IF x.kind = "NaN" \/ y.kind = "NaN" THEN NaN
    ELSE IF IsZero(y) THEN (IF IsZero(x) THEN NaN ELSE Infinity)
    ELSE IF x.kind = "Infinity" THEN (IF y.kind = "Infinity" THEN NaN ELSE Infinity)
    ELSE IF y.kind = "Infinity" THEN JsNum(0)
    ELSE [kind |-> "finite", num |-> x.num * y.den, den |-> x.den * y.num]

\* x * y for numbers that are not negative
JsMul(x, y) ==
    IF x.kind = "NaN" \/ y.kind = "NaN" THEN NaN
    ELSE IF x.kind = "Infinity" \/ y.kind = "Infinity"
         THEN (IF IsZero(x) \/ IsZero(y) THEN NaN ELSE Infinity)
    ELSE [kind |-> "finite", num |-> x.num * y.num, den |-> x.den * y.den]

JsAdd(x, y) ==
    IF x.kind = "NaN" \/ y.kind = "NaN" THEN NaN
    ELSE IF x.kind = "Infinity" \/ y.kind = "Infinity" THEN Infinity
    ELSE [kind |-> "finite", num |-> x.num * y.den + y.num * x.den, den |-> x.den * y.den]

JsMax(a, b) == IF a >= b THEN a ELSE b

\* x.toFixed(1): the text "NaN", "Infinity" or the number in tenths, rounded
ToFixed1(x) ==
    IF x.kind = "finite"
    THEN [kind |-> "finite", tenths |-> (20 * x.num + x.den) \div (2 * x.den)]
    ELSE [kind |-> x.kind]

IsFinite(x) == x.kind = "finite"

(***************************************************************************)
(* The Java files of a project                                             *)
(***************************************************************************)

LPackageModel == <<"package", " ", "com", ".", "example", ".", "model", ";">>

LClassController == <<"public", " ", "class", " ", "OrderController", " ", "{">>
LClassService    == <<"public", " ", "class", " ", "OrderService", " ", "{">>
LClassRepository == <<"public", " ", "class", " ", "OrderRepository", " ", "{">>
LIfaceRepository == <<"public", " ", "interface", " ", "OrderRepository", " ", "{">>

JavaFileNames == {"User.java", "UserRepository.java", "Color.java", "Order.java",
                  "Audit.java", "Plain.java"}

\* a path is the sequence of its components; join(dir, name)
Join(dir, name) == Append(dir, name)

BaseName(path) == path[Len(path)]

ProjectRoot == <<"/proj">>

\* the lines of the Java file of that name
FileLines(name) ==
    CASE name = "User.java" ->
            <<LPackage, LImport, LJavadocOpen, LJavadocText, LJavadocClose, LClassUser,
              LField, LJavadocOne, LMethod, LStatement, LCloseBrace, LCloseBrace>>
      [] name = "UserRepository.java" ->
            <<LPackage, LJavadocOpen, LJavadocIface, LJavadocClose, LIfaceRepo, LMethod,
              LCloseBrace>>
      [] name = "Color.java" -> <<LPackageModel, LEnumColor, LCloseBrace>>
      [] name = "Order.java" -> <<LClassOrder, LField, LMethod, LCloseBrace, LCloseBrace>>
      [] name = "Audit.java" -> <<LIfaceAudit, LCloseBrace>>
      [] name = "Plain.java" -> <<LPackageModel, LLineComment, LClassOrder, LCloseBrace>>
      [] name = "UserTest.java" -> <<LPackage, LClassOrder, LMethod, LCloseBrace, LCloseBrace>>
      [] name = "Controller.java" -> <<LPackage, LClassController, LMethod, LCloseBrace, LCloseBrace>>
      [] name = "Service.java" -> <<LPackage, LClassService, LCloseBrace>>
      [] name = "ServiceBare.java" -> <<LClassService, LCloseBrace>>
      [] name = "Repository.java" -> <<LPackage, LClassRepository, LCloseBrace>>
      [] name = "RepositoryPort.java" -> <<LPackage, LIfaceRepository, LCloseBrace>>
      [] OTHER -> <<>>

\* readFileSync(filePath, 'utf-8').split('\n') of a file that can be read
ReadLines(filePath) == FileLines(BaseName(filePath))

(***************************************************************************)
(* DocumentationGenerator: aggregation and the numbers of its documents    *)
(***************************************************************************)

\* the index of the package of that name in packages, 0 if it has none
PackageIndex(packages, name) ==
    LET hits == {i \in 1..Len(packages) : packages[i].name = name}
    IN  IF hits = {} THEN 0 ELSE CHOOSE i \in hits : TRUE

DocAggregateInit ==
    [packages |-> <<>>, classes |-> <<>>, interfaces |-> <<>>, enums |-> <<>>]

\* packages[name] of the package map, made when it is not there yet
DocKnownPackages(packages, name) ==
    IF PackageIndex(packages, name) = 0
    THEN Append(packages, [name |-> name, classes |-> <<>>, interfaces |-> <<>>,
                           enums |-> <<>>, methods |-> 0])
    ELSE packages

\* the record of a file with a package enters the classes of its package,
\* whatever its kind
DocAddToPackage(packages, k, analysis) ==
    [packages EXCEPT ![k].classes = Append(@, analysis),
                     ![k].methods = @ + Len(analysis.methods)]

DocAddPackaged(a, analysis) ==
    IF analysis.package # <<>>
    THEN [a EXCEPT !.packages =
              DocAddToPackage(DocKnownPackages(a.packages, analysis.package),
                              PackageIndex(DocKnownPackages(a.packages, analysis.package),
                                           analysis.package),
                              analysis)]
    ELSE a

\* every record enters the flat list of its kind
DocAddFlat(a, analysis) ==
    IF analysis.type = "class" THEN [a EXCEPT !.classes = Append(@, analysis)]
    ELSE IF analysis.type = "interface" THEN [a EXCEPT !.interfaces = Append(@, analysis)]
    ELSE IF analysis.type = "enum" THEN [a EXCEPT !.enums = Append(@, analysis)]
    ELSE a

DocAddAnalysis(a, analysis) == DocAddFlat(DocAddPackaged(a, analysis), analysis)

\* the body of the loop of analyzeProject for one file
DocAnalyzeProjectFile(a, filePath) ==
    DocAddAnalysis(a, DocAnalyzeJavaFile(ReadLines(filePath), filePath))

RECURSIVE DocAnalyzeFiles(_, _)
DocAnalyzeFiles(a, files) ==
    IF files = <<>> THEN a
    ELSE DocAnalyzeFiles(DocAnalyzeProjectFile(a, Head(files)), Tail(files))

\* DocumentationGenerator.analyzeProject
AggregateReturn(a, javaFiles) ==
    [packages |-> a.packages, classes |-> a.classes, interfaces |-> a.interfaces,
     enums |-> a.enums, totalFiles |-> Len(javaFiles)]

DocAnalyzeProject(javaFiles) ==
    AggregateReturn(DocAnalyzeFiles(DocAggregateInit, javaFiles), javaFiles)

\* the sum of a sequence of numbers (reduce((sum, x) => sum + x, 0))
RECURSIVE Sum(_)
Sum(seq) == IF seq = <<>> THEN 0 ELSE Head(seq) + Sum(Tail(seq))

\* seq.map(Weight) summed up
SumOver(seq, Weight(_)) == Sum([i \in 1..Len(seq) |-> Weight(seq[i])])

\* the computed parts of generateProjectOverview
generateProjectOverview(analysis) ==
    LET Methods(pkg) == pkg.methods
        totalMethods == SumOver(analysis.packages, Methods)
        avgMethodsPerClass == JsDiv(JsNum(totalMethods), JsNum(Len(analysis.classes)))
    IN  [totalFiles |-> analysis.totalFiles,
         classes |-> Len(analysis.classes),
         interfaces |-> Len(analysis.interfaces),
         enums |-> Len(analysis.enums),
         packageSections |-> [i \in 1..Len(analysis.packages) |->
                                 [name |-> analysis.packages[i].name,
                                  classes |-> Len(analysis.packages[i].classes),
                                  methods |-> analysis.packages[i].methods]],
         avgMethodsPerClass |-> ToFixed1(avgMethodsPerClass),
         packageDistribution |-> Len(analysis.packages),
         interfaceUsage |->
            IF Len(analysis.interfaces) > 0
            THEN <<ToFixed1(JsMul(JsDiv(JsNum(Len(analysis.interfaces)),
                                        JsNum(Len(analysis.classes))), JsNum(100)))>>
            ELSE <<>>]

\* a Javadoc value counts as absent when it is empty after trimming
LacksJavadoc(x) == x.javadoc = <<>> \/ Trim(x.javadoc) = <<>>

\* the computed parts of generateJavadocSuggestions
generateJavadocSuggestions(analysis) ==
    LET Members(pkg) == Len(pkg.classes)
        Undocumented(pkg) == Cardinality({i \in 1..Len(pkg.classes) :
                                             LacksJavadoc(pkg.classes[i])})
        MethodsOf(cls) == Len(cls.methods)
        UndocumentedOf(cls) == Cardinality({i \in 1..Len(cls.methods) :
                                               LacksJavadoc(cls.methods[i])})
        PkgMethods(pkg) == SumOver(pkg.classes, MethodsOf)
        PkgUndocMethods(pkg) == SumOver(pkg.classes, UndocumentedOf)
        totalClasses == SumOver(analysis.packages, Members)
        classesWithoutJavadoc == SumOver(analysis.packages, Undocumented)
        totalMethods == SumOver(analysis.packages, PkgMethods)
        methodsWithoutJavadoc == SumOver(analysis.packages, PkgUndocMethods)
    IN  [totalClasses |-> totalClasses,
         classesWithJavadoc |-> totalClasses - classesWithoutJavadoc,
         classCoverage |-> ToFixed1(JsMul(JsDiv(JsNum(totalClasses - classesWithoutJavadoc),
                                                JsNum(totalClasses)), JsNum(100))),
         totalMethods |-> totalMethods,
         methodsWithJavadoc |-> totalMethods - methodsWithoutJavadoc,
         methodCoverage |-> ToFixed1(JsMul(JsDiv(JsNum(totalMethods - methodsWithoutJavadoc),
                                                 JsNum(totalMethods)), JsNum(100)))]

(***************************************************************************)
(* ProjectStructureAnalyzer: aggregation and the numbers of its report     *)
(***************************************************************************)

StructAggregateInit ==
    [packages |-> <<>>, classes |-> <<>>, interfaces |-> <<>>, enums |-> <<>>]

\* packages[name] of the package map, made when it is not there yet
StructKnownPackages(packages, name) ==
    IF PackageIndex(packages, name) = 0
    THEN Append(packages, [name |-> name, classes |-> <<>>, interfaces |-> <<>>,
                           enums |-> <<>>, totalMethods |-> 0, totalFields |-> 0,
                           fileCount |-> 0])
    ELSE packages

\* the counters of the package of the record
\* a count of the files of the package that leaves its totals alone
CountFileOnly(packages, k, analysis) ==
    [packages EXCEPT ![k].fileCount = @ + 1]

StructCount(packages, k, analysis) ==
    [packages EXCEPT ![k].fileCount = @ + 1,
                     ![k].totalMethods = @ + Len(analysis.methods),
                     ![k].totalFields = @ + Len(analysis.fields)]

\* the record enters the list of its kind, in its package and in the project
StructAddByKind(a, counted, k, analysis) ==
    IF analysis.type = "class"
    THEN [a EXCEPT !.packages = [counted EXCEPT ![k].classes = Append(@, analysis)],
                   !.classes = Append(@, analysis)]
    ELSE IF analysis.type = "interface"
    THEN [a EXCEPT !.packages = [counted EXCEPT ![k].interfaces = Append(@, analysis)],
                   !.interfaces = Append(@, analysis)]
    ELSE IF analysis.type = "enum"
    THEN [a EXCEPT !.packages = [counted EXCEPT ![k].enums = Append(@, analysis)],
                   !.enums = Append(@, analysis)]
    ELSE [a EXCEPT !.packages = counted]

StructAddKnown(a, known, k, analysis) ==
    StructAddByKind(a, StructCount(known, k, analysis), k, analysis)

\* all of it happens for a record with a package only
StructAddAnalysis(a, analysis) ==
    IF analysis.package = <<>> THEN a
    ELSE StructAddKnown(a, StructKnownPackages(a.packages, analysis.package),
                        PackageIndex(StructKnownPackages(a.packages, analysis.package),
                                     analysis.package),
                        analysis)

\* the body of the loop of analyzeProjectStructure for one file
StructAnalyzeProjectFile(a, filePath) ==
    StructAddAnalysis(a, StructAnalyzeJavaFile(ReadLines(filePath), filePath))

RECURSIVE StructAnalyzeFiles(_, _)
StructAnalyzeFiles(a, files) ==
    IF files = <<>> THEN a
    ELSE StructAnalyzeFiles(StructAnalyzeProjectFile(a, Head(files)), Tail(files))

\* ProjectStructureAnalyzer.analyzeProjectStructure (the directory structure it
\* also collects is read by no renderer)
analyzeProjectStructure(javaFiles) ==
    AggregateReturn(StructAnalyzeFiles(StructAggregateInit, javaFiles), javaFiles)

\* pkg.name.split('.').length
PackageDepth(name) == Cardinality({i \in 1..Len(name) : name[i] = "."}) + 1

\* the computed parts of generatePackageAnalysis
generatePackageAnalysis(analysis) ==
    LET Depth(pkg) == PackageDepth(pkg.name)
        n == Len(analysis.packages)
    IN  IF n = 0 THEN [packages |-> 0, avgDepth |-> <<>>]
        ELSE [packages |-> n,
              avgDepth |-> <<ToFixed1(JsDiv(JsNum(SumOver(analysis.packages, Depth)),
                                            JsNum(n)))>>]

\* analyzeInheritancePatterns: every class counts with depth 1
analyzeInheritancePatterns(classes) ==
    [avgDepth |-> JsDiv(JsNum(Len(classes)), JsNum(Len(classes))),
     deepInheritance |-> 0]

\* the words the pattern detection looks for in lower-cased class names
NameHolds(className, word) ==
    \/ word = "controller" /\ className \in {"OrderController", "UserController"}
    \/ word = "service" /\ className \in {"OrderService", "UserService"}
    \/ word = "repository" /\ className \in {"OrderRepository", "UserRepository"}
    \/ word = "factory" /\ className \in {"UserFactory"}
    \/ word = "builder" /\ className \in {"UserBuilder"}

SomeClass(analysis, word) ==
    \E i \in 1..Len(analysis.classes) : NameHolds(analysis.classes[i].className, word)

detectArchitecturalPatterns(analysis) ==
    (IF SomeClass(analysis, "controller") /\ SomeClass(analysis, "service")
        /\ SomeClass(analysis, "repository")
     THEN <<"MVC/Service Layer Pattern">> ELSE <<>>)
    \o (IF SomeClass(analysis, "factory") THEN <<"Factory Pattern">> ELSE <<>>)
    \o (IF SomeClass(analysis, "builder") THEN <<"Builder Pattern">> ELSE <<>>)

\* the computed parts of generateArchitectureAnalysis
generateArchitectureAnalysis(analysis) ==
    LET totalClasses == Len(analysis.classes)
        totalInterfaces == Len(analysis.interfaces)
        FileCountOver15(pkg) == IF pkg.fileCount > 15 THEN 1 ELSE 0
    IN  [patterns |-> detectArchitecturalPatterns(analysis),
         classInterfaceRatio |->
            ToFixed1(JsDiv(JsNum(totalClasses), JsNum(JsMax(totalInterfaces, 1)))),
         abstractionLevel |->
            ToFixed1(JsMul(JsDiv(JsNum(totalInterfaces),
                                 JsNum(JsMax(totalClasses + totalInterfaces, 1))),
                           JsNum(100))),
         avgInheritanceDepth |-> ToFixed1(analyzeInheritancePatterns(analysis.classes).avgDepth),
         deepInheritance |-> analyzeInheritancePatterns(analysis.classes).deepInheritance,
         highCoupling |-> SumOver(analysis.packages, FileCountOver15)]

\* the classes lists of all packages, one after the other
RECURSIVE PackagedClasses(_)
PackagedClasses(packages) ==
    IF packages = <<>> THEN <<>>
    ELSE Head(packages).classes \o PackagedClasses(Tail(packages))

\* calculateComplexityMetrics: methods plus fields of every class of a package
calculateComplexityMetrics(analysis) ==
    LET all == PackagedClasses(analysis.packages)
        Complexity(cls) == Len(cls.methods) + Len(cls.fields)
        IsComplex(cls) == Len(cls.methods) + Len(cls.fields) > 20
        complex == SelectSeq(all, IsComplex)
    IN  [avgComplexity |-> JsDiv(JsNum(SumOver(all, Complexity)), JsNum(Len(all))),
         complexClasses |-> [i \in 1..(IF Len(complex) < 5 THEN Len(complex) ELSE 5) |->
                                complex[i].className]]

\* the computed parts of generateProjectMetrics
generateProjectMetrics(analysis) ==
    LET Methods(pkg) == pkg.totalMethods
        Fields(pkg) == pkg.totalFields
        totalMethods == SumOver(analysis.packages, Methods)
        totalFields == SumOver(analysis.packages, Fields)
        totalClasses == Len(analysis.classes)
    IN  [totalClasses |-> totalClasses,
         totalInterfaces |-> Len(analysis.interfaces),
         totalEnums |-> Len(analysis.enums),
         totalMethods |-> totalMethods,
         totalFields |-> totalFields,
         avgMethodsPerClass |->
            ToFixed1(JsDiv(JsNum(totalMethods), JsNum(JsMax(totalClasses, 1)))),
         avgFieldsPerClass |->
            ToFixed1(JsDiv(JsNum(totalFields), JsNum(JsMax(totalClasses, 1)))),
         avgComplexity |-> ToFixed1(calculateComplexityMetrics(analysis).avgComplexity),
         complexClasses |-> calculateComplexityMetrics(analysis).complexClasses]

(***************************************************************************)
(* CodeQualityChecker: the metrics of a file                               *)
(***************************************************************************)

CountOf(line, tok) == Cardinality({i \in 1..Len(line) : line[i] = tok})

MetricsInit ==
    [linesOfCode |-> 0, commentLines |-> 0, methodCount |-> 0, classCount |-> 0,
     totalMethodLength |-> 0, currentMethodLines |-> 0, inMethod |-> FALSE,
     braceCount |-> 0]

\* one pass of the loop body of calculateMetrics
MetricsLine(m, raw) ==
    LET line == Trim(raw)
        counted == [m EXCEPT !.linesOfCode = @ + 1,
                             !.classCount = IF IncludesKw(line, "class")
                                               /\ ~Includes(line, "interface")
                                            THEN @ + 1 ELSE @]
        braces == m.braceCount + CountOf(line, "{") - CountOf(line, "}")
    IN  IF line = <<>> THEN m
        ELSE IF StartsWith(line, {"//", "/*", "/**", "*", "*/"})
        THEN [m EXCEPT !.commentLines = @ + 1]
        ELSE IF Includes(line, "(") /\ Includes(line, ")") /\ HasVisibility(line)
        THEN [counted EXCEPT
                !.totalMethodLength = IF m.inMethod /\ m.currentMethodLines > 0
                                      THEN @ + m.currentMethodLines ELSE @,
                !.methodCount = @ + 1,
                !.currentMethodLines = 1,
                !.inMethod = TRUE,
                !.braceCount = 0]
        ELSE IF m.inMethod
        THEN [counted EXCEPT
                !.currentMethodLines = @ + 1,
                !.braceCount = braces,
                !.inMethod = ~(braces <= 0 /\ Includes(line, "}"))]
        ELSE counted

RECURSIVE MetricsLoop(_, _)
MetricsLoop(loop, lines) ==
    IF loop.i > Len(lines) THEN loop.m
    ELSE MetricsLoop([i |-> loop.i + 1, m |-> MetricsLine(loop.m, lines[loop.i])], lines)

MetricsFold(m, lines) == MetricsLoop([i |-> 1, m |-> m], lines)

MetricsReturn(m) ==
    LET totalMethodLength == IF m.inMethod /\ m.currentMethodLines > 0
                             THEN m.totalMethodLength + m.currentMethodLines
                             ELSE m.totalMethodLength
    IN  [linesOfCode |-> m.linesOfCode,
         commentLines |-> m.commentLines,
         commentRatio |-> IF m.linesOfCode > 0
                          THEN JsMul(JsDiv(JsNum(m.commentLines),
                                           JsNum(m.linesOfCode + m.commentLines)),
                                     JsNum(100))
                          ELSE JsNum(0),
         methodCount |-> m.methodCount,
         classCount |-> m.classCount,
         avgMethodLength |-> IF m.methodCount > 0
                             THEN JsDiv(JsNum(totalMethodLength), JsNum(m.methodCount))
                             ELSE JsNum(0)]

calculateMetrics(lines) == MetricsReturn(MetricsFold(MetricsInit, lines))

QualityTotalsInit ==
    [totalFiles |-> 0, totalLines |-> 0, totalMethods |-> 0, totalClasses |-> 0,
     commentRatio |-> JsNum(0), files |-> <<>>]

\* the totals the loop of CodeQualityChecker.analyzeProject keeps for one file
\* (the smells it also collects enter none of these numbers)
QualityAddMetrics(t, metrics) ==
    [totalFiles |-> t.totalFiles + 1,
     totalLines |-> t.totalLines + metrics.linesOfCode,
     totalMethods |-> t.totalMethods + metrics.methodCount,
     totalClasses |-> t.totalClasses + metrics.classCount,
     commentRatio |-> JsAdd(t.commentRatio, metrics.commentRatio),
     files |-> Append(t.files, [commentRatio |-> ToFixed1(metrics.commentRatio),
                                avgMethodLength |-> ToFixed1(metrics.avgMethodLength)])]

QualityMeasureFile(t, filePath) == QualityAddMetrics(t, calculateMetrics(ReadLines(filePath)))

(***************************************************************************)
(* SpecAgg: an aggregator folds the files of a project, a file per step,   *)
(* and the renderers compute their numbers from the model                  *)
(***************************************************************************)

\* the longest list of Java files of a project
MaxFiles == 3

Aggregators == {"documentation", "structure", "quality"}

\* the lists of distinct paths findJavaFiles can hand over (never empty here:
\* every tool returns before aggregating when the list is empty)
FileLists ==
    {[i \in 1..Len(l) |-> Join(ProjectRoot, l[i])] :
        l \in {m \in UNION {[1..n -> JavaFileNames] : n \in 1..MaxFiles} :
                  \A i, j \in 1..Len(m) : i # j => m[i] # m[j]}}

AggregateInit(which) ==
    IF which = "documentation" THEN DocAggregateInit
    ELSE IF which = "structure" THEN StructAggregateInit
    ELSE QualityTotalsInit

InitAgg ==
    /\ aggregator \in Aggregators
    /\ inputs \in FileLists
    /\ idx = 1
    /\ agg = AggregateInit(aggregator)
    /\ report = [ready |-> FALSE]
    /\ ToolIdle
    /\ ParseIdle

DocAggregateFile ==
    /\ aggregator = "documentation"
    /\ idx <= Len(inputs)
    /\ agg' = DocAnalyzeProjectFile(agg, inputs[idx])
    /\ idx' = idx + 1
    /\ UNCHANGED <<aggregator, inputs, report, toolVars, parseVars>>

\* the documents written from the finished model
DocRender ==
    /\ aggregator = "documentation"
    /\ idx = Len(inputs) + 1
    /\ ~report.ready
    /\ LET analysis == [packages |-> agg.packages, classes |-> agg.classes,
                        interfaces |-> agg.interfaces, enums |-> agg.enums,
                        totalFiles |-> Len(inputs)]
       IN  report' = [ready |-> TRUE,
                      analysis |-> analysis,
                      overview |-> generateProjectOverview(analysis),
                      javadoc |-> generateJavadocSuggestions(analysis)]
    /\ UNCHANGED <<aggregator, inputs, idx, agg, toolVars, parseVars>>

StructAggregateFile ==
    /\ aggregator = "structure"
    /\ idx <= Len(inputs)
    /\ agg' = StructAnalyzeProjectFile(agg, inputs[idx])
    /\ idx' = idx + 1
    /\ UNCHANGED <<aggregator, inputs, report, toolVars, parseVars>>

\* the sections of the structure report computed from the finished model
StructRender ==
    /\ aggregator = "structure"
    /\ idx = Len(inputs) + 1
    /\ ~report.ready
    /\ LET analysis == [packages |-> agg.packages, classes |-> agg.classes,
                        interfaces |-> agg.interfaces, enums |-> agg.enums,
                        totalFiles |-> Len(inputs)]
       IN  report' = [ready |-> TRUE,
                      analysis |-> analysis,
                      packageAnalysis |-> generatePackageAnalysis(analysis),
                      architecture |-> generateArchitectureAnalysis(analysis),
                      metrics |-> generateProjectMetrics(analysis)]
    /\ UNCHANGED <<aggregator, inputs, idx, agg, toolVars, parseVars>>

QualityAggregateFile ==
    /\ aggregator = "quality"
    /\ idx <= Len(inputs)
    /\ agg' = QualityMeasureFile(agg, inputs[idx])
    /\ idx' = idx + 1
    /\ UNCHANGED <<aggregator, inputs, report, toolVars, parseVars>>

\* the summary numbers of the project quality report
QualityRender ==
    /\ aggregator = "quality"
    /\ idx = Len(inputs) + 1
    /\ ~report.ready
    /\ report' = [ready |-> TRUE,
                  totalFiles |-> agg.totalFiles,
                  commentRatio |-> ToFixed1(JsDiv(agg.commentRatio, JsNum(agg.totalFiles))),
                  files |-> agg.files]
    /\ UNCHANGED <<aggregator, inputs, idx, agg, toolVars, parseVars>>

NextAgg ==
    \/ DocAggregateFile \/ DocRender
    \/ StructAggregateFile \/ StructRender
    \/ QualityAggregateFile \/ QualityRender

SpecAgg == InitAgg /\ [][NextAgg]_vars

(***************************************************************************)
(* The project on disk                                                     *)
(***************************************************************************)

FileEntry(name, readable) ==
    [name |-> name, kind |-> "file", readable |-> readable, entries |-> <<>>]

DirEntry(name, readable, entries) ==
    [name |-> name, kind |-> "dir", readable |-> readable, entries |-> entries]

\* what a path that does not exist resolves to
Missing == [name |-> "", kind |-> "missing", readable |-> FALSE, entries |-> <<>>]

Undefined == <<"undefined">>

\* the index of the entry of that name in a listing, 0 if it has none
EntryIndex(entries, name) ==
    LET hits == {i \in 1..Len(entries) : entries[i].name = name}
    IN  IF hits = {} THEN 0 ELSE CHOOSE i \in hits : TRUE

\* the entry a path names: the project, a child or a grandchild of the project,
\* or the output directory given by the caller, which lies outside the project
OutputRoot == <<"/out">>

Resolve(f, path) ==
    LET top == EntryIndex(f.proj.entries, path[2])
        sub == EntryIndex(f.proj.entries[top].entries, path[3])
    IN  IF path = OutputRoot THEN DirEntry("/out", TRUE, <<>>)
        ELSE IF path = <<>> \/ path[1] # ProjectRoot[1] THEN Missing
        ELSE IF Len(path) = 1 THEN f.proj
        ELSE IF ~f.proj.readable \/ top = 0 THEN Missing
        ELSE IF Len(path) = 2 THEN f.proj.entries[top]
        ELSE IF Len(path) > 3 \/ ~f.proj.entries[top].readable \/ sub = 0 THEN Missing
        ELSE f.proj.entries[top].entries[sub]

\* the directory a project path names: the project or a directory inside it
ResolveDir(f, path) == Resolve(f, path)

\* fs.existsSync
existsSync(f, path) == Resolve(f, path).kind # "missing"

\* whether readFileSync of the path returns (it throws otherwise)
CanRead(f, path) == Resolve(f, path).kind = "file" /\ Resolve(f, path).readable

\* entry.name.endsWith('.java')
JavaNames == JavaFileNames \cup {"UserTest.java", "Locked.java"}

EndsWithJava(name) == name \in JavaNames

SkipDirsOfTestGenerator == {"target", "build", "node_modules", ".git", ".idea", "out"}

SkipDirsWithTest == {"target", "build", "node_modules", ".git", ".idea", "out", "test"}

\* shouldSkipDirectory of the tool's own walker
SkipDirsOf(tool) ==
    IF tool = "generate_tests" THEN SkipDirsOfTestGenerator ELSE SkipDirsWithTest

\* scanDirectory: the listing of a directory that cannot be read is skipped
RECURSIVE scanDirectory(_, _, _, _)
RECURSIVE ScanEntries(_, _, _, _)
\* a walk that gives up what it has collected at a directory it cannot read
scanOrForget(dir, path, skipDirs, javaFiles) ==
    IF dir.kind = "dir" /\ dir.readable
    THEN ScanEntries(dir.entries, path, skipDirs, javaFiles)
    ELSE <<>>

scanDirectory(dir, path, skipDirs, javaFiles) ==
    IF dir.kind = "dir" /\ dir.readable
    THEN ScanEntries(dir.entries, path, skipDirs, javaFiles)
    ELSE javaFiles

ScanEntries(entries, path, skipDirs, javaFiles) ==
    IF entries = <<>> THEN javaFiles
    ELSE LET entry == Head(entries)
             fullPath == Join(path, entry.name)
             found == IF entry.kind = "dir" /\ entry.name \notin skipDirs
                      THEN scanDirectory(entry, fullPath, skipDirs, javaFiles)
                      ELSE IF entry.kind = "file" /\ EndsWithJava(entry.name)
                      THEN Append(javaFiles, fullPath)
                      ELSE javaFiles
         IN  ScanEntries(Tail(entries), path, skipDirs, found)

\* a walk that lists every entry of the project directory, Java file or not
findEveryEntry(f, projectPath, skipDirs) ==
    [i \in 1..Len(ResolveDir(f, projectPath).entries) |->
        Join(projectPath, ResolveDir(f, projectPath).entries[i].name)]

\* findJavaFiles of a tool with that set of skipped directory names
findJavaFiles(f, projectPath, skipDirs) ==
    scanDirectory(ResolveDir(f, projectPath), projectPath, skipDirs, <<>>)

\* the projects a tool is run on
Optional(entries) == {<<>>} \cup {<<e>> : e \in entries}

RootJavaChoices == Optional({FileEntry("Order.java", TRUE)})

SrcChoices ==
    Optional({DirEntry("src", FALSE, <<FileEntry("User.java", TRUE)>>)}
             \cup {DirEntry("src", TRUE, files) :
                     files \in {<<>>,
                                <<FileEntry("User.java", TRUE)>>,
                                <<FileEntry("UserRepository.java", TRUE)>>,
                                <<FileEntry("User.java", TRUE),
                                  FileEntry("UserRepository.java", TRUE)>>,
                                <<FileEntry("User.java", TRUE),
                                  FileEntry("UserTest.java", TRUE)>>,
                                <<FileEntry("Locked.java", FALSE)>>}})

TestChoices == Optional({DirEntry("test", TRUE, <<FileEntry("UserTest.java", TRUE)>>)})

TargetChoices == Optional({DirEntry("target", TRUE, <<FileEntry("User.java", TRUE)>>)})

DocsChoices == Optional({DirEntry("docs", TRUE, <<>>)})

DocumentNames == <<"project-overview.md", "api-documentation.md", "javadoc-suggestions.md">>

OutputDirs == {Join(ProjectRoot, "docs"), OutputRoot}

DocumentPaths == {Join(d, DocumentNames[i]) : d \in OutputDirs, i \in 1..3}

Projects ==
    {[proj |-> DirEntry("/proj", TRUE,
                        (IF pom = "none" THEN <<>> ELSE <<FileEntry("pom.xml", TRUE)>>)
                        \o (IF gradle = "none" THEN <<>>
                            ELSE <<FileEntry("build.gradle", TRUE)>>)
                        \o java \o srcDir \o testDir \o targetDir \o docs),
      pom |-> pom,
      gradle |-> gradle,
      documents |-> [d \in DocumentPaths |-> <<>>]] :
        pom \in {"none", "valid", "malformed"},
        gradle \in {"none", "valid"},
        java \in RootJavaChoices,
        srcDir \in SrcChoices,
        testDir \in TestChoices,
        targetDir \in TargetChoices,
        docs \in DocsChoices}

(***************************************************************************)
(* What execute hands back                                                 *)
(***************************************************************************)

\* a text that opens with the cross mark
Cross(message) == [kind |-> "text", head |-> "cross", message |-> message]

\* the text of a catch block of execute: "Error <doing>: <message>"
ErrorText(doing, message) ==
    [kind |-> "text", head |-> "Error", doing |-> doing, message |-> message]

\* a report
Report(title, detail) ==
    [kind |-> "text", head |-> "heading", message |-> title, detail |-> detail]

\* the promise of execute rejects: destructuring undefined throws before the try
Rejected == [kind |-> "rejected", head |-> "TypeError",
             message |-> "Cannot destructure property 'projectPath' of 'args'"]

NoJavaFiles == Cross("No Java files found in the project.")

NoManifest == Cross("No Maven (pom.xml) or Gradle (build.gradle) files found in the project.")

\* the arguments object; a call may carry none
AbsentArgs == [present |-> FALSE]

ProjectPaths == {ProjectRoot, <<"/nowhere">>, Undefined}

\* an optional argument that is not a path: <<>> when the caller left it out,
\* <<value>> otherwise; Truthy is JavaScript truthiness of a string argument
Truthy(opt) == opt # <<>> /\ opt[1] # ""

(***************************************************************************)
(* DependencyAnalyzer                                                      *)
(***************************************************************************)

\* A version is the sequence of the pieces of its text, <<>> when the element
\* is left out; a dependency element may lack its groupId (<<>>) or scope.
Dependency(groupId, artifactId, version, scope) ==
    [groupId |-> groupId, artifactId |-> artifactId, version |-> version, scope |-> scope]

\* the dependency elements of the well-formed pom.xml
PomDependencies ==
    <<Dependency(<<"org.springframework">>, <<"core">>, <<"5.0.0", "-", "SNAPSHOT">>, <<>>),
      Dependency(<<"junit">>, <<"junit">>, <<"LATEST">>, <<"test">>)>>

\* what xml2js makes of pom.xml: an error, or a document with or without a
\* project element
UnparsablePom == [parses |-> FALSE]

RootlessPom == [parses |-> TRUE, project |-> FALSE]

ProjectPom(dependencies) ==
    [parses |-> TRUE, project |-> TRUE, dependencies |-> dependencies]

\* the configuration lines of build.gradle
GradleDependencies ==
    <<"implementation: org.springframework:spring-core:5.3.0",
      "testImplementation: junit:junit:4.13">>

\* a check of the version alone, whatever the group
checkVersionOnly(groupId, artifactId, version) ==
    (IF version # <<>> /\ version[1] = "${" THEN <<"uses property reference">> ELSE <<>>)
    \o (IF version \in {<<"LATEST">>, <<"RELEASE">>} THEN <<"uses dynamic version">> ELSE <<>>)
    \o (IF \E i \in 1..Len(version) : version[i] = "SNAPSHOT"
        THEN <<"uses snapshot version">> ELSE <<>>)

checkDependencyIssues(groupId, artifactId, version) ==
    (IF version # <<>> /\ version[1] = "${" THEN <<"uses property reference">> ELSE <<>>)
    \o (IF version \in {<<"LATEST">>, <<"RELEASE">>} THEN <<"uses dynamic version">> ELSE <<>>)
    \o (IF groupId = "org.springframework" /\ \E i \in 1..Len(version) : version[i] = "SNAPSHOT"
        THEN <<"uses snapshot version">> ELSE <<>>)

\* issues.join(', ')
RECURSIVE JoinComma(_)
JoinComma(issues) ==
    IF Len(issues) <= 1 THEN issues
    ELSE <<Head(issues), ", ">> \o JoinComma(Tail(issues))

\* dep.scope?.[0] || 'compile'
ScopeOf(dep) == IF dep.scope = <<>> THEN "compile" ELSE dep.scope[1]

\* dep.version?.[0] || 'version not specified'
VersionOf(dep) == IF dep.version = <<>> THEN <<"version not specified">> ELSE dep.version

\* the keys of scopes, in the order the dependencies brought them
RECURSIVE ScopesOf(_, _)
ScopesOf(dependencies, seen) ==
    IF dependencies = <<>> THEN seen
    ELSE ScopesOf(Tail(dependencies),
                  IF \E i \in 1..Len(seen) : seen[i] = ScopeOf(Head(dependencies))
                  THEN seen ELSE Append(seen, ScopeOf(Head(dependencies))))

InScope(dependencies, scope) == SelectSeq(dependencies, LAMBDA dep : ScopeOf(dep) = scope)

\* the line of one dependency: its coordinates and version, then the warning
\* with the joined issues when there are any
DependencyLine(dep) ==
    [groupId |-> dep.groupId[1],
     artifactId |-> dep.artifactId[1],
     version |-> VersionOf(dep),
     warning |-> IF checkDependencyIssues(dep.groupId[1], dep.artifactId[1], VersionOf(dep)) = <<>>
                 THEN <<>>
                 ELSE <<JoinComma(checkDependencyIssues(dep.groupId[1], dep.artifactId[1],
                                                        VersionOf(dep)))>>]

ScopeSection(dependencies, scope) ==
    [scope |-> scope,
     lines |-> [i \in 1..Len(InScope(dependencies, scope)) |->
                   DependencyLine(InScope(dependencies, scope)[i])]]

\* dep.groupId[0] and dep.artifactId[0] throw when the element is missing
Incomplete(dep) == dep.groupId = <<>> \/ dep.artifactId = <<>>

Threw(message) == [threw |-> TRUE, message |-> message]

generateMavenAnalysis(dependencies) ==
    IF \E i \in 1..Len(dependencies) : Incomplete(dependencies[i])
    THEN Threw("Cannot read properties of undefined (reading '0')")
    ELSE [threw |-> FALSE,
          heading |-> "Maven Dependencies Analysis",
          total |-> Len(dependencies),
          sections |-> [k \in 1..Len(ScopesOf(dependencies, <<>>)) |->
                           ScopeSection(dependencies, ScopesOf(dependencies, <<>>)[k])]]

\* the promise of analyzeMavenDependencies: rejected with the parser's error,
\* or with what reading the document or rendering it threw
analyzeMavenDependencies(pom) ==
    IF ~pom.parses THEN Threw("xml parse error")
    ELSE IF ~pom.project
    THEN Threw("Cannot read properties of undefined (reading 'dependencies')")
    ELSE generateMavenAnalysis(pom.dependencies)

analyzeGradleDependencies ==
    [threw |-> FALSE,
     heading |-> "Gradle Dependencies Analysis",
     total |-> Len(GradleDependencies),
     dependencies |-> GradleDependencies]

\* the try block of execute once both paths are joined: pom is <<>> when
\* there is no pom.xml, <<document>> otherwise
AnalyzeManifests(pom, hasGradle) ==
    IF pom # <<>> /\ analyzeMavenDependencies(pom[1]).threw
    THEN ErrorText("analyzing dependencies", analyzeMavenDependencies(pom[1]).message)
    ELSE IF pom = <<>> /\ ~hasGradle THEN NoManifest
    ELSE Report("Dependencies",
                (IF pom # <<>> THEN <<analyzeMavenDependencies(pom[1])>> ELSE <<>>)
                \o (IF hasGradle THEN <<analyzeGradleDependencies>> ELSE <<>>))

\* the document of the pom.xml of a project of the model
PomDocument(kind) ==
    IF kind = "valid" THEN ProjectPom(PomDependencies) ELSE UnparsablePom

DependencyAnalyzerExecute(f, args) ==
    IF ~args.present THEN Rejected
    ELSE IF args.projectPath = Undefined
    THEN ErrorText("analyzing dependencies", "The \"path\" argument must be of type string")
    ELSE AnalyzeManifests(IF existsSync(f, Join(args.projectPath, "pom.xml"))
                          THEN <<PomDocument(f.pom)>> ELSE <<>>,
                          existsSync(f, Join(args.projectPath, "build.gradle")))

(***************************************************************************)
(* TestGenerator                                                           *)
(***************************************************************************)

\* file.toLowerCase().includes(className.toLowerCase()) on the paths of the model
LowerIncludes(path, className) ==
    \E i \in 1..Len(path) :
        \/ className \in {"User", "user"}
              /\ path[i] \in {"User.java", "UserRepository.java", "UserTest.java"}
        \/ className = "proj" /\ path[i] = "/proj"

\* javaFiles.find(...): the first match in walk order, <<>> for undefined
FindFile(javaFiles, className) ==
    LET hits == {i \in 1..Len(javaFiles) : LowerIncludes(javaFiles[i], className)}
    IN  IF hits = {} THEN <<>>
        ELSE <<javaFiles[CHOOSE i \in hits : \A j \in hits : i <= j]>>

\* fileName.replace('.java', 'Test.java')
TestFileName(fileName) ==
    CASE fileName = "User.java" -> "UserTest.java"
      [] fileName = "UserRepository.java" -> "UserRepositoryTest.java"
      [] fileName = "Order.java" -> "OrderTest.java"
      [] fileName = "UserTest.java" -> "UserTestTest.java"
      [] OTHER -> "Test.java"

\* getTestFilePath: no path of the model holds /src/main/java/, so the first
\* candidate is the path with the file name replaced
getTestFilePath(originalPath) ==
    LET fileName == BaseName(originalPath)
        first == CHOOSE i \in 1..Len(originalPath) :
                    /\ originalPath[i] = fileName
                    /\ \A j \in 1..(i - 1) : originalPath[j] # fileName
    IN  [originalPath EXCEPT ![first] = TestFileName(fileName)]

ToUpperCase(testFramework) ==
    CASE testFramework = "junit5" -> "JUNIT5"
      [] testFramework = "testng" -> "TESTNG"
      [] OTHER -> testFramework

\* object[name] || default: a property the object does not have is undefined
PropertyOr(object, name, default) ==
    IF name \in DOMAIN object /\ object[name] # <<>> THEN object[name] ELSE default

generateTestForClass(f, filePath, testFramework) ==
    LET analysis == analyzeJavaClass(ReadLines(filePath))
    IN  IF ~CanRead(f, filePath)
        THEN ErrorText("generating tests", "EACCES: permission denied")
        ELSE Report("Test Generation for class",
                    [className |-> analysis.className,
                     file |-> filePath,
                     framework |-> ToUpperCase(testFramework),
                     package |-> PropertyOr(analysis, "package", <<"default">>),
                     publicMethods |-> Len(analysis.publicMethods),
                     dependencies |-> Len(analysis.dependencies)])

generateTestsForAllClasses(f, javaFiles, testFramework) ==
    LET HasTest(file) == existsSync(f, getTestFilePath(file))
        LacksTest(file) == ~HasTest(file)
        NameOf(file) == analyzeJavaClass(ReadLines(file)).className
        without == SelectSeq(javaFiles, LacksTest)
    IN  IF \E i \in 1..Len(javaFiles) : ~CanRead(f, javaFiles[i])
        THEN ErrorText("generating tests", "EACCES: permission denied")
        ELSE Report("Test Generation Analysis",
                    [framework |-> ToUpperCase(testFramework),
                     classesFound |-> Len(javaFiles),
                     classesWithTests |-> Len(SelectSeq(javaFiles, HasTest)),
                     classesWithoutTests |-> Len(without),
                     missing |-> [i \in 1..Len(without) |-> NameOf(without[i])]])

TestGeneratorExecute(f, args) ==
    IF ~args.present THEN Rejected
    ELSE LET javaFiles == findJavaFiles(f, args.projectPath, SkipDirsOfTestGenerator)
             testFramework == IF args.testFramework = <<>> THEN "junit5"
                              ELSE args.testFramework[1]
             targetFile == FindFile(javaFiles, args.className[1])
         IN  IF javaFiles = <<>> THEN NoJavaFiles
             ELSE IF Truthy(args.className)
             THEN IF targetFile # <<>>
                  THEN generateTestForClass(f, targetFile[1], testFramework)
                  ELSE Cross("Class not found in the project.")
             ELSE generateTestsForAllClasses(f, javaFiles, testFramework)

(***************************************************************************)
(* CodeQualityChecker                                                      *)
(***************************************************************************)

\* the default of a boolean option the caller left out
OrDefault(opt, default) == IF opt = <<>> THEN default ELSE opt[1]

analyzeSingleFile(f, filePath, includeMetrics) ==
    LET metrics == calculateMetrics(ReadLines(filePath))
    IN  IF ~existsSync(f, filePath) THEN Cross("File not found")
        ELSE IF Resolve(f, filePath).kind = "dir"
        THEN ErrorText("checking code quality", "EISDIR: illegal operation on a directory")
        ELSE IF ~CanRead(f, filePath)
        THEN ErrorText("checking code quality", "EACCES: permission denied")
        ELSE Report("Code Quality Analysis",
                    [file |-> filePath,
                     linesOfCode |-> metrics.linesOfCode,
                     commentLines |-> metrics.commentLines,
                     commentRatio |-> ToFixed1(metrics.commentRatio),
                     methods |-> metrics.methodCount,
                     classes |-> metrics.classCount,
                     avgMethodLength |-> ToFixed1(metrics.avgMethodLength),
                     detailed |-> includeMetrics])

RECURSIVE QualityMeasureFiles(_, _)
QualityMeasureFiles(t, files) ==
    IF files = <<>> THEN t
    ELSE QualityMeasureFiles(QualityMeasureFile(t, Head(files)), Tail(files))

QualityAnalyzeProject(f, projectPath) ==
    LET javaFiles == findJavaFiles(f, projectPath, SkipDirsWithTest)
        totalMetrics == QualityMeasureFiles(QualityTotalsInit, javaFiles)
    IN  IF javaFiles = <<>> THEN NoJavaFiles
        ELSE IF \E i \in 1..Len(javaFiles) : ~CanRead(f, javaFiles[i])
        THEN ErrorText("checking code quality", "EACCES: permission denied")
        ELSE Report("Project Code Quality Analysis",
                    [totalFiles |-> totalMetrics.totalFiles,
                     totalLines |-> totalMetrics.totalLines,
                     totalMethods |-> totalMetrics.totalMethods,
                     totalClasses |-> totalMetrics.totalClasses,
                     commentRatio |-> ToFixed1(JsDiv(totalMetrics.commentRatio,
                                                     JsNum(totalMetrics.totalFiles)))])

\* an execute that analyses the file only when it lies under projectPath
ExecuteUnderProject(f, args) ==
    IF ~args.present THEN Rejected
    ELSE IF args.filePath # Undefined
            /\ Len(args.projectPath) <= Len(args.filePath)
            /\ SubSeq(args.filePath, 1, Len(args.projectPath)) = args.projectPath
    THEN analyzeSingleFile(f, args.filePath, OrDefault(args.includeMetrics, TRUE))
    ELSE QualityAnalyzeProject(f, args.projectPath)

CodeQualityCheckerExecute(f, args) ==
    IF ~args.present THEN Rejected
    ELSE IF args.filePath # Undefined
    THEN analyzeSingleFile(f, args.filePath, OrDefault(args.includeMetrics, TRUE))
    ELSE QualityAnalyzeProject(f, args.projectPath)

(***************************************************************************)
(* DocumentationGenerator                                                  *)
(***************************************************************************)

generateAPIDocumentation(analysis, includePrivate) ==
    LET IsPublic(x) == x.visibility = "public"
        Names(members) == [i \in 1..Len(members) |-> members[i].name]
        Section(cls) ==
            [className |-> cls.className, type |-> cls.type, javadoc |-> cls.javadoc,
             publicFields |-> Names(SelectSeq(cls.fields, IsPublic)),
             methods |-> Names(IF includePrivate THEN cls.methods
                               ELSE SelectSeq(cls.methods, IsPublic))]
    IN  [i \in 1..Len(analysis.packages) |->
            [package |-> analysis.packages[i].name,
             classes |-> [j \in 1..Len(analysis.packages[i].classes) |->
                             Section(analysis.packages[i].classes[j])]]]

\* mkdirSync(path, {recursive: true}) of a directory right under the project
mkdirSync(f, path) ==
    IF Len(path) = 2 /\ path[1] = ProjectRoot[1] /\ ~existsSync(f, path)
    THEN [f EXCEPT !.proj.entries = Append(@, DirEntry(path[2], TRUE, <<>>))]
    ELSE f

\* writeFileSync(path, content): the document is kept, and listed by its
\* directory when that directory is one of the project
writeFileSync(f, path, content) ==
    LET dir == EntryIndex(f.proj.entries, path[2])
        kept == [f EXCEPT !.documents[path] = <<content>>]
    IN  IF Len(path) = 3 /\ path[1] = ProjectRoot[1] /\ dir # 0
           /\ EntryIndex(f.proj.entries[dir].entries, path[3]) = 0
        THEN [kept EXCEPT !.proj.entries[dir].entries = Append(@, FileEntry(path[3], TRUE))]
        ELSE kept

\* saveDocumentation after the saves before it: st.thrown tells that one of
\* them threw, and then this one is never reached.  The directory is made with
\* require('fs'), which throws a ReferenceError where require is not defined.
saveDocumentation(st, required, outputDir, filename, content) ==
    IF st.thrown THEN st
    ELSE IF ~existsSync(st.fs, outputDir) /\ ~required
    THEN [st EXCEPT !.thrown = TRUE]
    ELSE [st EXCEPT !.fs = writeFileSync(mkdirSync(st.fs, outputDir),
                                         Join(outputDir, filename), content)]

DocumentationTypes == {"all", "overview", "api", "javadoc", "html"}

\* execute of DocumentationGenerator up to "await this.analyzeProject": what
\* the activation holds when it yields, or the outcome if it is settled by then
Settled(text) == [settled |-> TRUE, text |-> text]

\* an execute that goes on to save although it found no Java file
BeginWithoutJavaFiles(f, args) ==
    LET javaFiles == findJavaFiles(f, args.projectPath, SkipDirsWithTest)
    IN  IF ~args.present THEN Settled(Rejected)
        ELSE IF \E i \in 1..Len(javaFiles) : ~CanRead(f, javaFiles[i])
        THEN Settled(ErrorText("generating documentation", "EACCES: permission denied"))
        ELSE [settled |-> FALSE, javaFiles |-> javaFiles,
              analysis |-> DocAnalyzeProject(javaFiles)]

DocumentationGeneratorBegin(f, args) ==
    LET javaFiles == findJavaFiles(f, args.projectPath, SkipDirsWithTest)
    IN  IF ~args.present THEN Settled(Rejected)
        ELSE IF javaFiles = <<>> THEN Settled(NoJavaFiles)
        ELSE IF \E i \in 1..Len(javaFiles) : ~CanRead(f, javaFiles[i])
        THEN Settled(ErrorText("generating documentation", "EACCES: permission denied"))
        ELSE [settled |-> FALSE, javaFiles |-> javaFiles,
              analysis |-> DocAnalyzeProject(javaFiles)]

\* execute of DocumentationGenerator after the await: the text and the file
\* system it leaves
DocumentationGeneratorResume(f, required, args, locals) ==
    LET outputDir == IF args.outputPath # Undefined THEN args.outputPath
                     ELSE Join(args.projectPath, "docs")
        documentationType == OrDefault(args.documentationType, "all")
        includePrivate == OrDefault(args.includePrivate, FALSE)
        Selected(type) == documentationType \in {"all", type}
        s0 == [fs |-> f, thrown |-> FALSE]
        s1 == IF Selected("overview")
              THEN saveDocumentation(s0, required, outputDir, DocumentNames[1],
                                     [overview |-> generateProjectOverview(locals.analysis)])
              ELSE s0
        s2 == IF Selected("api")
              THEN saveDocumentation(s1, required, outputDir, DocumentNames[2],
                                     [api |-> generateAPIDocumentation(locals.analysis,
                                                                       includePrivate)])
              ELSE s1
        s3 == IF Selected("javadoc")
              THEN saveDocumentation(s2, required, outputDir, DocumentNames[3],
                                     [javadoc |-> generateJavadocSuggestions(locals.analysis)])
              ELSE s2
    IN  IF locals.settled THEN [text |-> locals.text, fs |-> f]
        ELSE IF s3.thrown
        THEN [text |-> ErrorText("generating documentation", "require is not defined"),
              fs |-> s3.fs]
        ELSE [text |-> Report("Documentation Generation",
                              [project |-> args.projectPath,
                               outputDir |-> outputDir,
                               javaFiles |-> Len(locals.javaFiles),
                               generated |-> SelectSeq(DocumentNames,
                                   LAMBDA n : \/ n = DocumentNames[1] /\ Selected("overview")
                                              \/ n = DocumentNames[2] /\ Selected("api")
                                              \/ n = DocumentNames[3] /\ Selected("javadoc")),
                               listed |-> [i \in 1..3 |-> Join(outputDir, DocumentNames[i])]]),
              fs |-> s3.fs]

\* execute of DocumentationGenerator, run with nothing else in between
DocumentationGeneratorExecute(f, required, args) ==
    DocumentationGeneratorResume(f, required, args, DocumentationGeneratorBegin(f, args))

(***************************************************************************)
(* ProjectStructureAnalyzer                                                *)
(***************************************************************************)

\* filteredEntries.slice(0, 20) and filteredSubEntries.slice(0, 10)
TreeEntriesShown == 20

SubEntriesShown == 10

\* the default of maxDepth
TreeMaxDepth == 3

\* entries.slice(0, n); a display that cuts nothing shows them all
EveryEntry(seq, n) == seq

Slice(seq, n) == SubSeq(seq, 1, IF Len(seq) < n THEN Len(seq) ELSE n)

\* entries.filter(entry => !this.shouldSkipDirectory(entry.name))
FilterSkipped(entries) == SelectSeq(entries, LAMBDA e : e.name \notin SkipDirsWithTest)

TreeLine(name, depth, isLast, isFile, more) ==
    [name |-> name, depth |-> depth, isLast |-> isLast, isFile |-> isFile, more |-> more]

\* generateTreeEntry: the line of the entry, then those of what it holds
RECURSIVE generateTreeEntry(_, _, _, _)
RECURSIVE TreeEntries(_, _, _, _, _)
generateTreeEntry(entry, isLast, depth, maxDepth) ==
    LET filteredSubEntries == FilterSkipped(entry.entries)
    IN  <<TreeLine(entry.name, depth, isLast, entry.kind = "file", 0)>>
        \o (IF entry.kind = "dir" /\ depth < maxDepth /\ entry.readable
            THEN TreeEntries(Slice(filteredSubEntries, SubEntriesShown), 1,
                             Len(filteredSubEntries), depth + 1, maxDepth)
                 \o (IF Len(filteredSubEntries) > SubEntriesShown
                     THEN <<TreeLine("more entries", depth, isLast, FALSE,
                                     Len(filteredSubEntries) - SubEntriesShown)>>
                     ELSE <<>>)
            ELSE <<>>)

TreeEntries(shown, index, total, depth, maxDepth) ==
    IF index > Len(shown) THEN <<>>
    ELSE generateTreeEntry(shown[index], index = total, depth, maxDepth)
         \o TreeEntries(shown, index + 1, total, depth, maxDepth)

generateDirectoryTree(f, projectPath) ==
    LET dir == ResolveDir(f, projectPath)
        filteredEntries == FilterSkipped(dir.entries)
    IN  IF dir.kind = "dir" /\ dir.readable
        THEN TreeEntries(Slice(filteredEntries, TreeEntriesShown), 1, Len(filteredEntries),
                         0, TreeMaxDepth)
             \o (IF Len(filteredEntries) > TreeEntriesShown
                 THEN <<TreeLine("showing first 20 entries", 0, TRUE, FALSE, 0)>>
                 ELSE <<>>)
        ELSE <<TreeLine("Unable to read directory structure", 0, TRUE, FALSE, 0)>>

\* execute of ProjectStructureAnalyzer (the recommendations that close the
\* report are left out)
ProjectStructureAnalyzerExecute(f, args) ==
    LET javaFiles == findJavaFiles(f, args.projectPath, SkipDirsWithTest)
        analysis == analyzeProjectStructure(javaFiles)
    IN  IF ~args.present THEN Rejected
        ELSE IF ~existsSync(f, args.projectPath) THEN Cross("Project path does not exist")
        ELSE IF javaFiles = <<>> THEN NoJavaFiles
        ELSE IF \E i \in 1..Len(javaFiles) : ~CanRead(f, javaFiles[i])
        THEN ErrorText("analyzing project structure", "EACCES: permission denied")
        ELSE Report("Project Structure Analysis",
                    [projectPath |-> args.projectPath,
                     totalFiles |-> Len(javaFiles),
                     tree |-> generateDirectoryTree(f, args.projectPath),
                     packageAnalysis |-> generatePackageAnalysis(analysis),
                     architecture |-> IF OrDefault(args.includeArchitecture, TRUE)
                                      THEN <<generateArchitectureAnalysis(analysis)>>
                                      ELSE <<>>,
                     metrics |-> IF OrDefault(args.includeMetrics, TRUE)
                                 THEN <<generateProjectMetrics(analysis)>>
                                 ELSE <<>>])

(***************************************************************************)
(* Spec: one tool is run once on a project                                 *)
(***************************************************************************)

\* a project whose root directory cannot be listed
LockedProject ==
    [proj |-> DirEntry("/proj", FALSE, <<FileEntry("pom.xml", TRUE),
                                         FileEntry("Order.java", TRUE)>>),
     pom |-> "valid",
     gradle |-> "none",
     documents |-> [d \in DocumentPaths |-> <<>>]]

Present(fields) == [present |-> TRUE] @@ fields

\* the arguments a tool is called with: none at all, a project path alone
\* (one that exists, one that does not, or none), or the project with options
DependencyArgs ==
    {AbsentArgs} \cup {Present([projectPath |-> p]) : p \in ProjectPaths}

TestArgs ==
    {AbsentArgs}
    \cup {Present([projectPath |-> p, className |-> <<>>, testFramework |-> <<>>]) :
            p \in ProjectPaths}
    \cup {Present([projectPath |-> ProjectRoot, className |-> c, testFramework |-> t]) :
            c \in {<<>>, <<"User">>, <<"proj">>, <<"Ghost">>},
            t \in {<<>>, <<"testng">>}}

QualityArgs ==
    {AbsentArgs}
    \cup {Present([projectPath |-> p, filePath |-> Undefined, includeMetrics |-> <<>>]) :
            p \in ProjectPaths}
    \cup {Present([projectPath |-> ProjectRoot, filePath |-> file, includeMetrics |-> m]) :
            file \in {<<"/proj", "src", "User.java">>, <<"/proj", "src">>},
            m \in {<<>>, <<FALSE>>}}

DocumentationArgs ==
    {AbsentArgs}
    \cup {Present([projectPath |-> p, outputPath |-> Undefined, documentationType |-> <<>>,
                   includePrivate |-> <<>>]) : p \in ProjectPaths}
    \cup {Present([projectPath |-> ProjectRoot, outputPath |-> o, documentationType |-> t,
                   includePrivate |-> i]) :
            o \in {Undefined, OutputRoot},
            t \in {<<>>} \cup {<<d>> : d \in DocumentationTypes \ {"all"}},
            i \in {<<>>, <<TRUE>>}}

StructureArgs ==
    {AbsentArgs}
    \cup {Present([projectPath |-> p, includeArchitecture |-> <<>>, includeMetrics |-> <<>>]) :
            p \in ProjectPaths}
    \cup {Present([projectPath |-> ProjectRoot, includeArchitecture |-> a,
                   includeMetrics |-> m]) :
            a \in {<<>>, <<FALSE>>}, m \in {<<>>, <<FALSE>>}}

Init ==
    /\ fs \in Projects \cup {LockedProject}
    /\ requireDefined \in BOOLEAN
    /\ pc = "idle"
    /\ call = [tool |-> "none"]
    /\ result = [kind |-> "none"]
    /\ ParseIdle
    /\ AggIdle

ExecuteDependencyAnalyzer ==
    /\ pc = "idle"
    /\ \E args \in DependencyArgs :
          /\ call' = [tool |-> "analyze_dependencies", args |-> args]
          /\ result' = DependencyAnalyzerExecute(fs, args)
    /\ pc' = "done"
    /\ UNCHANGED <<fs, requireDefined, parseVars, aggVars>>

ExecuteTestGenerator ==
    /\ pc = "idle"
    /\ \E args \in TestArgs :
          /\ call' = [tool |-> "generate_tests", args |-> args]
          /\ result' = TestGeneratorExecute(fs, args)
    /\ pc' = "done"
    /\ UNCHANGED <<fs, requireDefined, parseVars, aggVars>>

ExecuteCodeQualityChecker ==
    /\ pc = "idle"
    /\ \E args \in QualityArgs :
          /\ call' = [tool |-> "check_code_quality", args |-> args]
          /\ result' = CodeQualityCheckerExecute(fs, args)
    /\ pc' = "done"
    /\ UNCHANGED <<fs, requireDefined, parseVars, aggVars>>

ExecuteDocumentationGenerator ==
    /\ pc = "idle"
    /\ \E args \in DocumentationArgs :
          /\ call' = [tool |-> "generate_documentation", args |-> args]
          /\ LET out == DocumentationGeneratorExecute(fs, requireDefined, args)
             IN  result' = out.text /\ fs' = out.fs
    /\ pc' = "done"
    /\ UNCHANGED <<requireDefined, parseVars, aggVars>>

ExecuteProjectStructureAnalyzer ==
    /\ pc = "idle"
    /\ \E args \in StructureArgs :
          /\ call' = [tool |-> "analyze_project_structure", args |-> args]
          /\ result' = ProjectStructureAnalyzerExecute(fs, args)
    /\ pc' = "done"
    /\ UNCHANGED <<fs, requireDefined, parseVars, aggVars>>

Next ==
    \/ ExecuteDependencyAnalyzer
    \/ ExecuteTestGenerator
    \/ ExecuteCodeQualityChecker
    \/ ExecuteDocumentationGenerator
    \/ ExecuteProjectStructureAnalyzer

Spec == Init /\ [][Next]_vars


(***************************************************************************)
(* Properties of the parsers, under SpecParse                              *)
(***************************************************************************)

\* the text of a Javadoc block: its lines, each trimmed and ended by a newline
RECURSIVE BlockText(_)
BlockText(block) ==
    IF block = <<>> THEN <<>>
    ELSE Trim(Head(block)) \o <<"\n">> \o BlockText(Tail(block))

\* the file declares one type, on one line, and names no other
SingleTypeFile ==
    /\ parts.decl \in TypeDeclarations
    /\ parts.suffix \in {<<>>, <<LCloseBrace>>, <<LMethod, LCloseBrace>>}

\* C7: when the one type declaration of a file directly follows a Javadoc
\* block, the type's javadoc of the record is the text of that block, up to
\* the white space around it, whatever words the lines of the block hold.
C7_TypeJavadocIsTheBlock ==
    (/\ parser = "documentation"
     /\ ParseDone
     /\ parts.block # <<>>
     /\ parts.gap = <<>>
     /\ SingleTypeFile)
        => Trim(rec.javadoc) = Trim(BlockText(parts.block))

\* the gaps that hold a line of code: not blank, and no comment line
CodeGaps == {<<LStatement>>, <<LAnnotation>>, <<LStatementCmt>>}

\* the Javadoc blocks none of whose lines holds a type keyword
PlainBlocks == {<<LJavadocOne>>, <<LJavadocOpen, LJavadocText, LJavadocClose>>}

\* C8: when a line of code stands between a Javadoc block and the declaration
\* after it, the block is attached to nothing: the type, every method and
\* every field of the record are left without Javadoc.
C8_CodeLineDropsJavadoc ==
    (/\ parser = "documentation"
     /\ ParseDone
     /\ parts.block \in PlainBlocks
     /\ parts.gap \in CodeGaps)
        => /\ rec.javadoc = <<>>
           /\ \A i \in 1..Len(rec.methods) : rec.methods[i].javadoc = <<>>
           /\ \A i \in 1..Len(rec.fields) : rec.fields[i].javadoc = <<>>

\* the keywords a parser takes for the mark of a type: TestGenerator knows
\* classes only
IsTypeLineOf(which, line) ==
    IF which = "tests" THEN IncludesKw(line, "class") ELSE IsTypeLine(line)

TypeKeywordOf(which, line) == IF which = "tests" THEN "class" ELSE TypeKeyword(line)

\* the lines of the file that hold such a keyword
TypeLines == SelectSeq(src, LAMBDA l : IsTypeLineOf(parser, Trim(l)))

\* the name and the kind the first of them declares
FirstTypeName == MatchKwName(Trim(TypeLines[1]), TypeKeywordOf(parser, Trim(TypeLines[1])))

FirstTypeKind == TypeKeywordOf(parser, Trim(TypeLines[1]))

\* C9: the first line with a type keyword decides: after parsing, the name of
\* the record (and its kind, where the parser keeps one) is that of the first
\* such line, in each of the three parsers.
C9_FirstTypeWins ==
    (ParseDone /\ TypeLines # <<>> /\ FirstTypeName.ok)
        => /\ rec.className = FirstTypeName.name
           /\ parser \in {"documentation", "structure"} => rec.type = FirstTypeKind

(***************************************************************************)
(* Properties of the aggregators and their numbers, under SpecAgg          *)
(***************************************************************************)

\* C5: with no record of kind class in the model, average methods per class
\* is a finite number, in the overview of the documentation and in the
\* metrics of the structure report.
C5_AverageMethodsPerClassIsFinite ==
    (report.ready /\ aggregator \in {"documentation", "structure"}
     /\ Len(report.analysis.classes) = 0)
        => /\ aggregator = "documentation" => IsFinite(report.overview.avgMethodsPerClass)
           /\ aggregator = "structure" => IsFinite(report.metrics.avgMethodsPerClass)

\* C6: every other ratio, percentage and average of a report is finite:
\* Javadoc coverage of classes and of methods and interface usage in the
\* documentation; average complexity, average inheritance depth and average
\* package depth in the structure report; comment ratio and average method
\* length in the quality report.
C6_EveryRatioIsFinite ==
    report.ready
        => /\ aggregator = "documentation"
                => /\ IsFinite(report.javadoc.classCoverage)
                   /\ IsFinite(report.javadoc.methodCoverage)
                   /\ \A i \in 1..Len(report.overview.interfaceUsage) :
                         IsFinite(report.overview.interfaceUsage[i])
           /\ aggregator = "structure"
                => /\ IsFinite(report.metrics.avgComplexity)
                   /\ IsFinite(report.architecture.avgInheritanceDepth)
                   /\ \A i \in 1..Len(report.packageAnalysis.avgDepth) :
                         IsFinite(report.packageAnalysis.avgDepth[i])
           /\ aggregator = "quality"
                => /\ IsFinite(report.commentRatio)
                   /\ \A i \in 1..Len(report.files) :
                         /\ IsFinite(report.files[i].commentRatio)
                         /\ IsFinite(report.files[i].avgMethodLength)

\* the record the aggregator's parser makes of an input file
RecordOf(filePath) ==
    IF aggregator = "documentation"
    THEN DocAnalyzeJavaFile(ReadLines(filePath), filePath)
    ELSE StructAnalyzeJavaFile(ReadLines(filePath), filePath)

\* the flat list of the model for records of that kind
FlatList(analysis, kind) ==
    IF kind = "class" THEN analysis.classes
    ELSE IF kind = "interface" THEN analysis.interfaces
    ELSE analysis.enums

Holds(list, filePath) == \E i \in 1..Len(list) : list[i].filePath = filePath

\* C10: the record of a file without package is in the flat list of its kind
\* and in no list of any package, and totalFiles is the length of the input
\* list, in the documentation and in the structure aggregator.
C10_PackagelessRecordsAreListed ==
    (report.ready /\ aggregator \in {"documentation", "structure"})
        => /\ report.analysis.totalFiles = Len(inputs)
           /\ \A i \in 1..Len(inputs) :
                 RecordOf(inputs[i]).package = <<>>
                    => /\ Holds(FlatList(report.analysis, RecordOf(inputs[i]).type),
                                inputs[i])
                       /\ \A k \in 1..Len(report.analysis.packages) :
                             /\ ~Holds(report.analysis.packages[k].classes, inputs[i])
                             /\ ~Holds(report.analysis.packages[k].interfaces, inputs[i])
                             /\ ~Holds(report.analysis.packages[k].enums, inputs[i])


(***************************************************************************)
(* Properties of the tools, under Spec                                     *)
(***************************************************************************)

Tools == {"analyze_dependencies", "generate_tests", "check_code_quality",
          "generate_documentation", "analyze_project_structure"}

Called == pc = "done" /\ call.tool \in Tools

\* C1: whatever arguments a tool is called with, none at all included, execute
\* resolves to a text; it never rejects.
C1_ExecuteResolvesToText == Called => result.kind = "text"

\* the call names a project directory that does not exist, and no file
MissingProject ==
    /\ call.args.present
    /\ call.args.projectPath = <<"/nowhere">>
    /\ call.tool = "check_code_quality" => call.args.filePath = Undefined

\* the call of check_code_quality names a file that does not exist
MissingFile ==
    /\ call.args.present
    /\ call.tool = "check_code_quality"
    /\ call.args.filePath # Undefined
    /\ ~existsSync(fs, call.args.filePath)

NotFoundMessages == {"Project path does not exist", "File not found"}

\* C2: a call on a project path (or, for check_code_quality, a file) that does
\* not exist is answered by a text that says so, which is neither the tool's
\* message for a project without Java files nor that for one without manifest.
C2_MissingPathIsReported ==
    (Called /\ (MissingProject \/ MissingFile))
        => /\ result.kind = "text"
           /\ result.head = "cross"
           /\ result.message \in NotFoundMessages
           /\ result \notin {NoJavaFiles, NoManifest}

\* whether the directory holds a Java file anywhere below it
RECURSIVE HoldsJavaFile(_)
HoldsJavaFile(entry) ==
    \E i \in 1..Len(entry.entries) :
        \/ entry.entries[i].kind = "file" /\ EndsWithJava(entry.entries[i].name)
        \/ entry.entries[i].kind = "dir" /\ HoldsJavaFile(entry.entries[i])

\* the project exists and holds neither a Java file nor a manifest
EmptyProject ==
    /\ ~HoldsJavaFile(fs.proj)
    /\ ~existsSync(fs, Join(ProjectRoot, "pom.xml"))
    /\ ~existsSync(fs, Join(ProjectRoot, "build.gradle"))

\* the call gives the path of the project and nothing else
OnlyProjectPath ==
    /\ call.args.present
    /\ call.args.projectPath = ProjectRoot
    /\ \A k \in DOMAIN call.args \ {"present", "projectPath"} :
          IF k \in {"filePath", "outputPath"} THEN call.args[k] = Undefined
          ELSE call.args[k] = <<>>

\* C3: on a project directory that exists and holds no Java file and no
\* manifest, a tool called with the project path alone answers with its
\* message for nothing to analyse: the no-manifest message for
\* analyze_dependencies, "No Java files found in the project." for the other
\* four; the text never begins with "Error".
C3_EmptyProjectIsNoError ==
    (Called /\ EmptyProject /\ OnlyProjectPath)
        => /\ result.head # "Error"
           /\ result = IF call.tool = "analyze_dependencies" THEN NoManifest ELSE NoJavaFiles

\* C3 happens: documentation was asked for a project that holds an empty
\* source directory only, and the answer is the message for no Java files
C3_EmptyProjectAnswered ==
    /\ Called /\ EmptyProject /\ OnlyProjectPath
    /\ call.tool = "generate_documentation"
    /\ existsSync(fs, Join(ProjectRoot, "src"))
    /\ result = NoJavaFiles

\* the output directory of a documentation call
OutputDir ==
    IF call.args.outputPath # Undefined THEN call.args.outputPath
    ELSE Join(call.args.projectPath, "docs")

\* the documents the documentationType of the call selects
SelectedDocuments ==
    LET type == OrDefault(call.args.documentationType, "all")
    IN  {Join(OutputDir, DocumentNames[1]) : x \in {t \in {type} : t \in {"all", "overview"}}}
        \cup {Join(OutputDir, DocumentNames[2]) : x \in {t \in {type} : t \in {"all", "api"}}}
        \cup {Join(OutputDir, DocumentNames[3]) : x \in {t \in {type} : t \in {"all", "javadoc"}}}

\* the call of generate_documentation found Java files and could read them all
FoundJavaFiles ==
    /\ call.args.present
    /\ findJavaFiles(fs, call.args.projectPath, SkipDirsWithTest) # <<>>
    /\ \A i \in 1..Len(findJavaFiles(fs, call.args.projectPath, SkipDirsWithTest)) :
          CanRead(fs, findJavaFiles(fs, call.args.projectPath, SkipDirsWithTest)[i])

\* C4: a generate_documentation call that finds Java files leaves exactly the
\* documents its documentationType selects, in the output directory (the
\* outputPath, else docs under the project), and no other document.
C4_WritesTheSelectedDocuments ==
    (Called /\ call.tool = "generate_documentation" /\ FoundJavaFiles)
        => \A d \in DocumentPaths : (fs.documents[d] # <<>>) <=> (d \in SelectedDocuments)


(***************************************************************************)
(* Membership in the packages of the model, under SpecAgg                  *)
(***************************************************************************)

\* the lists of the packages of the model that hold the record of that file,
\* as pairs of a package index and the name of the list
HoldingLists(analysis, filePath) ==
    {<<k, "class">> : k \in {j \in 1..Len(analysis.packages) :
                                Holds(analysis.packages[j].classes, filePath)}}
    \cup {<<k, "interface">> : k \in {j \in 1..Len(analysis.packages) :
                                Holds(analysis.packages[j].interfaces, filePath)}}
    \cup {<<k, "enum">> : k \in {j \in 1..Len(analysis.packages) :
                                Holds(analysis.packages[j].enums, filePath)}}

\* C11: once the records are folded, the record of every file with a package
\* is in exactly one list of exactly one package of the model: the package
\* of its name, and the list of its kind.
C11_PackagedRecordInTheListOfItsKind ==
    (report.ready /\ aggregator \in {"documentation", "structure"})
        => \A i \in 1..Len(inputs) :
              RecordOf(inputs[i]).package # <<>>
                 => HoldingLists(report.analysis, inputs[i])
                       = {<<PackageIndex(report.analysis.packages,
                                         RecordOf(inputs[i]).package),
                            RecordOf(inputs[i]).type>>}


(***************************************************************************)
(* CodeQualityChecker: the smells of the lines of a file                   *)
(*                                                                         *)
(* A line is measured in characters here: the white space it begins with,  *)
(* the text between, the white space it ends with, and what the text       *)
(* holds.                                                                  *)
(***************************************************************************)

LongLineLimit == 120

DeepNestingLimit == 24

MeasuredLine(indent, text, trail, has) ==
    [indent |-> indent, text |-> text, trail |-> trail, has |-> has]

\* lines[i].length
RawLength(line) == line.indent + line.text + line.trail

\* lines[i].trim().length
TrimmedLength(line) == line.text

\* lines[i].length - lines[i].trimStart().length
IndentLevel(line) ==
    IF line.text = 0 THEN line.indent + line.trail ELSE line.indent

\* What the text of a line holds is told by line.has: "number" an integer
\* literal of three digits or more that /\b\d{3,}\b/ matches, "//", "import",
\* "catch", "TODO" and "FIXME" that substring, "}" that the text is a lone
\* closing brace.  "line comment" tells that the text begins with //, "*"
\* that the line is one of a block or Javadoc comment, "import line" that it
\* begins with the import keyword.

\* l.trim() === '' || l.trim() === '}'
BlankOrBrace(line) == line.text = 0 \/ (line.text = 1 /\ "}" \in line.has)

Smell(type, lineNumber) == [type |-> type, line |-> lineNumber]

LongLineSmell(lines, i) ==
    IF TrimmedLength(lines[i]) > LongLineLimit THEN <<Smell("Long Line", i)>> ELSE <<>>

DeepNestingSmell(lines, i) ==
    IF IndentLevel(lines[i]) > DeepNestingLimit THEN <<Smell("Deep Nesting", i)>> ELSE <<>>

MagicNumberSmell(lines, i) ==
    IF "number" \in lines[i].has /\ "//" \notin lines[i].has /\ "import" \notin lines[i].has
    THEN <<Smell("Magic Number", i)>> ELSE <<>>

\* i is the 1-based line number: the code's i + 2 < lines.length is i + 1 < Len
EmptyCatchSmell(lines, i) ==
    IF /\ "catch" \in lines[i].has
       /\ i + 1 < Len(lines)
       /\ BlankOrBrace(lines[i + 1])
       /\ BlankOrBrace(lines[i + 2])
    THEN <<Smell("Empty Catch Block", i)>> ELSE <<>>

TechnicalDebtSmell(lines, i) ==
    IF "TODO" \in lines[i].has \/ "FIXME" \in lines[i].has
    THEN <<Smell("Technical Debt", i)>> ELSE <<>>

\* the body of the loop of detectCodeSmells for line i
SmellsOfLine(lines, i) ==
    LongLineSmell(lines, i) \o DeepNestingSmell(lines, i) \o MagicNumberSmell(lines, i)
        \o EmptyCatchSmell(lines, i) \o TechnicalDebtSmell(lines, i)

RECURSIVE SmellsFrom(_, _)
SmellsFrom(lines, i) ==
    IF i > Len(lines) THEN <<>> ELSE SmellsOfLine(lines, i) \o SmellsFrom(lines, i + 1)

detectCodeSmells(lines) == SmellsFrom(lines, 1)

\* the longest file of measured lines
MaxLines == 3

MeasuredLines ==
    { MeasuredLine(0, 0, 0, {}),                        \* an empty line
      MeasuredLine(0, 1, 0, {"}"}),                     \* }
      MeasuredLine(8, 40, 0, {}),                       \* a statement
      MeasuredLine(0, 130, 0, {}),                      \* 130 characters of text
      MeasuredLine(12, 118, 0, {}),                     \* 130 characters, 12 of them indentation
      MeasuredLine(0, 118, 12, {}),                     \* 130 characters, 12 of them trailing
      MeasuredLine(0, 120, 0, {}),                      \* 120 characters
      MeasuredLine(0, 121, 0, {"TODO", "//", "line comment"}),  \* a comment of 121 characters
      MeasuredLine(28, 30, 0, {"number"}),              \* a deeply indented line with 1000 in it
      MeasuredLine(8, 30, 0, {"catch"}),                \* } catch (Exception e) {
      MeasuredLine(1, 14, 0, {"number", "*"}),          \* " * at most 1000": a Javadoc line
      MeasuredLine(8, 26, 0, {"number", "//"}),         \* int cap = 1000; // the limit
      MeasuredLine(0, 13, 0, {"number", "//", "line comment"}),   \* // up to 1000
      MeasuredLine(0, 23, 0, {"number", "import", "import line"}), \* import a.b.C; /* 1000 */
      MeasuredLine(8, 17, 0, {"number", "import"}) }    \* importRows(1000);

MeasuredFiles == UNION {[1..n -> MeasuredLines] : n \in 1..MaxLines}

InitSmell ==
    /\ parser = "smells"
    /\ src \in MeasuredFiles
    /\ parts = "none"
    /\ pos = 0
    /\ rec = <<>>
    /\ ToolIdle
    /\ AggIdle

\* one iteration of the loop of detectCodeSmells
DetectLine ==
    /\ parser = "smells"
    /\ pos < Len(src)
    /\ pos' = pos + 1
    /\ rec' = rec \o SmellsOfLine(src, pos + 1)
    /\ UNCHANGED <<parser, src, parts, toolVars, aggVars>>

NextSmell == DetectLine

SpecSmell == InitSmell /\ [][NextSmell]_vars

\* the line numbers of the smells of that type found so far
SmellLines(type) == {rec[k].line : k \in {j \in 1..Len(rec) : rec[j].type = type}}

\* the number of smells of that type found so far at that line
SmellCount(type, n) == Cardinality({j \in 1..Len(rec) : rec[j].type = type /\ rec[j].line = n})

\* C12: a line is reported as a long line, once, exactly when it has more
\* than 120 characters, indentation included.
C12_LongLineIffOver120Characters ==
    (parser = "smells" /\ pos = Len(src))
        => \A n \in 1..Len(src) :
              SmellCount("Long Line", n) = IF RawLength(src[n]) > 120 THEN 1 ELSE 0


(***************************************************************************)
(* DependencyAnalyzer on the manifests of a project, under SpecPom         *)
(***************************************************************************)

\* the most dependency elements of a pom.xml
MaxDependencies == 2

Versions ==
    { <<>>,
      <<"5.0.0">>,
      <<"5.0.0", "-", "SNAPSHOT">>,
      <<"${", "spring.version", "}">>,
      <<"${", "spring.version", "}", "-", "SNAPSHOT">>,
      <<"1.0", "${", "rev", "}">>,
      <<"LATEST">>,
      <<"RELEASE">>,
      <<"LATEST", "-", "SNAPSHOT">> }

DependencyChoices ==
    {Dependency(g, <<"core">>, v, <<>>) :
        g \in {<<"org.springframework">>, <<"junit">>}, v \in Versions}
    \cup {Dependency(<<"org.springframework">>, <<"core">>, <<"5.0.0", "-", "SNAPSHOT">>,
                     <<"test">>),
          Dependency(<<"junit">>, <<"core">>, <<"LATEST">>, <<"test">>),
          Dependency(<<>>, <<"core">>, <<"1.0">>, <<>>)}

Poms ==
    {UnparsablePom, RootlessPom}
    \cup {ProjectPom(ds) : ds \in UNION {[1..n -> DependencyChoices] : n \in 0..MaxDependencies}}

InitPom ==
    /\ aggregator = "dependencies"
    /\ inputs \in [pom : Optional(Poms), gradle : BOOLEAN]
    /\ idx = 0
    /\ agg = "none"
    /\ report = [ready |-> FALSE]
    /\ ToolIdle
    /\ ParseIdle

\* the try block of DependencyAnalyzer.execute on these manifests
AnalyzeDependencies ==
    /\ aggregator = "dependencies"
    /\ ~report.ready
    /\ report' = [ready |-> TRUE, result |-> AnalyzeManifests(inputs.pom, inputs.gradle)]
    /\ UNCHANGED <<aggregator, inputs, idx, agg, toolVars, parseVars>>

NextPom == AnalyzeDependencies

SpecPom == InitPom /\ [][NextPom]_vars

\* the Maven analysis is part of the result
MavenAnalysed ==
    /\ report.ready
    /\ inputs.pom # <<>>
    /\ report.result.head = "heading"

\* the lines of the dependencies of the Maven analysis, section after section
RECURSIVE LinesOfSections(_)
LinesOfSections(sections) ==
    IF sections = <<>> THEN <<>>
    ELSE Head(sections).lines \o LinesOfSections(Tail(sections))

MavenLines == LinesOfSections(report.result.detail[1].sections)

IssueNames == <<"uses property reference", "uses dynamic version", "uses snapshot version">>

\* whether a dependency line is to carry that issue
IssueApplies(issue, line) ==
    IF issue = "uses property reference" THEN line.version[1] = "${"
    ELSE IF issue = "uses dynamic version" THEN line.version \in {<<"LATEST">>, <<"RELEASE">>}
    ELSE /\ line.groupId = "org.springframework"
         /\ \E i \in 1..Len(line.version) : line.version[i] = "SNAPSHOT"

IssuesOf(line) == SelectSeq(IssueNames, LAMBDA issue : IssueApplies(issue, line))

\* C13: every dependency of the pom has one line, and the line carries
\* exactly the issues that apply to it (property reference iff the version
\* begins with ${, dynamic version iff it is LATEST or RELEASE, snapshot
\* version iff the group is org.springframework and the version contains
\* SNAPSHOT), joined by commas in that order, and no warning when none applies.
C13_IssuesAreExactlyThoseThatApply ==
    MavenAnalysed
        => /\ Len(MavenLines) = Len(inputs.pom[1].dependencies)
           /\ \A i \in 1..Len(MavenLines) :
                 MavenLines[i].warning =
                    IF IssuesOf(MavenLines[i]) = <<>> THEN <<>>
                    ELSE <<JoinComma(IssuesOf(MavenLines[i]))>>

\* C13 happens: the pom with org.springframework:core:5.0.0-SNAPSHOT alone is
\* analysed and its line warns of the snapshot version
C13_SnapshotIsFlagged ==
    /\ MavenAnalysed
    /\ inputs.pom[1].dependencies
          = <<Dependency(<<"org.springframework">>, <<"core">>, <<"5.0.0", "-", "SNAPSHOT">>,
                         <<>>)>>
    /\ MavenLines[1].warning = <<<<"uses snapshot version">>>>


\* the pom.xml is there and malformed: it does not parse, has no project
\* element, or has a dependency without groupId or artifactId
MalformedPom ==
    /\ inputs.pom # <<>>
    /\ \/ ~inputs.pom[1].parses
       \/ ~inputs.pom[1].project
       \/ \E i \in 1..Len(inputs.pom[1].dependencies) :
             Incomplete(inputs.pom[1].dependencies[i])

\* the text of the result holds the analysis of build.gradle
HoldsGradleAnalysis(text) ==
    /\ "detail" \in DOMAIN text
    /\ \E i \in 1..Len(text.detail) : text.detail[i] = analyzeGradleDependencies

\* C17: with a malformed pom.xml the result holds the text of the error, and
\* when the project also has a build.gradle the analysis of that manifest is
\* still in the result.
C17_MalformedPomFailsAlone ==
    (report.ready /\ aggregator = "dependencies" /\ MalformedPom)
        => /\ report.result.kind = "text"
           /\ report.result.message = analyzeMavenDependencies(inputs.pom[1]).message
           /\ inputs.gradle => HoldsGradleAnalysis(report.result)


(***************************************************************************)
(* The layered project, under SpecArch                                     *)
(***************************************************************************)

\* files that declare OrderController, OrderService and OrderRepository: as
\* classes of a package, OrderService also without package, OrderRepository
\* also as an interface
LayerFileNames ==
    {"Controller.java", "Service.java", "ServiceBare.java", "Repository.java",
     "RepositoryPort.java"}

LayerFileLists ==
    {[i \in 1..Len(l) |-> Join(ProjectRoot, l[i])] :
        l \in {m \in UNION {[1..n -> LayerFileNames] : n \in 1..MaxFiles} :
                  \A i, j \in 1..Len(m) : i # j => m[i] # m[j]}}

InitArch ==
    /\ aggregator = "structure"
    /\ inputs \in LayerFileLists
    /\ idx = 1
    /\ agg = StructAggregateInit
    /\ report = [ready |-> FALSE]
    /\ ToolIdle
    /\ ParseIdle

NextArch == StructAggregateFile \/ StructRender

SpecArch == InitArch /\ [][NextArch]_vars

\* some type of the project has that word in its name
SomeTypeName(word) ==
    \E i \in 1..Len(inputs) : NameHolds(RecordOf(inputs[i]).className, word)

\* C14: the architecture analysis reports the MVC/Service Layer Pattern
\* exactly when the names of the types of the project hold controller,
\* service and repository, whatever the package and kind of those types.
C14_LayerPatternIffNamesPresent ==
    (report.ready /\ aggregator = "structure")
        => ((\E k \in 1..Len(report.architecture.patterns) :
                report.architecture.patterns[k] = "MVC/Service Layer Pattern")
            <=> (SomeTypeName("controller") /\ SomeTypeName("service")
                 /\ SomeTypeName("repository")))


(***************************************************************************)
(* The walk over deeper trees, under SpecWalk                              *)
(***************************************************************************)

\* the most directories nested below the project directory
MaxDepth == 2

LeafListings ==
    {<<>>, <<FileEntry("User.java", TRUE)>>, <<FileEntry("notes.txt", TRUE)>>}

\* the listings of a directory with at most depth directories nested in it:
\* a directory, perhaps after a Java file and perhaps before a sibling
\* directory; a directory that cannot be read has one content only
RECURSIVE Listings(_)
Listings(depth) ==
    IF depth = 0 THEN LeafListings
    ELSE LeafListings
         \cup {before \o <<dir>> \o after :
                 before \in {<<>>, <<FileEntry("Order.java", TRUE)>>},
                 after \in {<<>>, <<DirEntry("lib", TRUE, <<FileEntry("Plain.java", TRUE)>>)>>},
                 dir \in {DirEntry(name, TRUE, listing) :
                            name \in {"src", "target", "test"},
                            listing \in Listings(depth - 1)}
                         \cup {DirEntry("src", FALSE, <<FileEntry("User.java", TRUE)>>)}}

WalkingTools ==
    {"generate_tests", "check_code_quality", "generate_documentation",
     "analyze_project_structure"}

InitWalk ==
    /\ fs \in {[proj |-> DirEntry("/proj", TRUE, listing)] : listing \in Listings(MaxDepth)}
    /\ requireDefined = TRUE
    /\ pc = "idle"
    /\ call = [tool |-> "none"]
    /\ result = [kind |-> "none"]
    /\ ParseIdle
    /\ AggIdle

\* findJavaFiles(projectPath) of one of the four tools that walk the project
WalkProject ==
    /\ pc = "idle"
    /\ \E tool \in WalkingTools :
          /\ call' = [tool |-> tool]
          /\ result' = [kind |-> "files",
                        files |-> findJavaFiles(fs, ProjectRoot, SkipDirsOf(tool))]
    /\ pc' = "done"
    /\ UNCHANGED <<fs, requireDefined, parseVars, aggVars>>

NextWalk == WalkProject

SpecWalk == InitWalk /\ [][NextWalk]_vars

\* the names a tool leaves out of its walk
ExclusionSet(tool) ==
    {"target", "build", "node_modules", ".git", ".idea", "out"}
    \cup (IF tool = "generate_tests" THEN {} ELSE {"test"})

\* the Java files of a listing that lie in directories that can be read and
\* below no directory of an excluded name
RECURSIVE JavaFilesIn(_, _, _)
JavaFilesIn(entries, path, excluded) ==
    UNION {IF entries[i].kind = "file"
           THEN (IF EndsWithJava(entries[i].name) THEN {Join(path, entries[i].name)} ELSE {})
           ELSE IF entries[i].name \in excluded \/ ~entries[i].readable THEN {}
           ELSE JavaFilesIn(entries[i].entries, Join(path, entries[i].name), excluded) :
           i \in 1..Len(entries)}

Walked == pc = "done" /\ call.tool \in WalkingTools

Returned == {result.files[i] : i \in 1..Len(result.files)}

\* C15: the walk returns no path with a directory of an excluded name below
\* the root, and it returns, once each, every Java file that has no such
\* directory above it and lies in directories that can be read, however
\* deep; a root holding only excluded directories gives the empty list.
C15_WalkSkipsExcludedAndFindsTheRest ==
    Walked
        => /\ \A p \in Returned :
                 \A k \in 2..(Len(p) - 1) : p[k] \notin ExclusionSet(call.tool)
           /\ Returned = JavaFilesIn(fs.proj.entries, ProjectRoot, ExclusionSet(call.tool))
           /\ Cardinality(Returned) = Len(result.files)
           /\ (\A i \in 1..Len(fs.proj.entries) :
                  /\ fs.proj.entries[i].kind = "dir"
                  /\ fs.proj.entries[i].name \in ExclusionSet(call.tool))
                 => result.files = <<>>

\* C15 happens: src/target/User.java is left out, while the files beside and
\* below src, two directories down included, are returned in walk order
C15_DeepFilesFoundExcludedLeftOut ==
    /\ Walked
    /\ call.tool = "generate_documentation"
    /\ fs.proj.entries =
          <<FileEntry("Order.java", TRUE),
            DirEntry("src", TRUE,
                     <<FileEntry("Order.java", TRUE),
                       DirEntry("target", TRUE, <<FileEntry("User.java", TRUE)>>),
                       DirEntry("lib", TRUE, <<FileEntry("Plain.java", TRUE)>>)>>),
            DirEntry("lib", TRUE, <<FileEntry("Plain.java", TRUE)>>)>>
    /\ result.files = << <<"/proj", "Order.java">>,
                         <<"/proj", "src", "Order.java">>,
                         <<"/proj", "src", "lib", "Plain.java">>,
                         <<"/proj", "lib", "Plain.java">> >>


\* the listings the walk reads: that of the root and of every directory below
\* it that can be read and that the tool does not exclude nor has excluded above
RECURSIVE MetListings(_, _, _)
MetListings(entries, path, excluded) ==
    {[path |-> path, entries |-> entries]}
    \cup UNION {IF entries[i].kind = "dir" /\ entries[i].name \notin excluded
                   /\ entries[i].readable
                THEN MetListings(entries[i].entries, Join(path, entries[i].name), excluded)
                ELSE {} : i \in 1..Len(entries)}

\* entry k of the listing is a directory the walk enters and cannot read
Unreadable(listing, k, excluded) ==
    /\ listing.entries[k].kind = "dir"
    /\ listing.entries[k].name \notin excluded
    /\ ~listing.entries[k].readable

IsPrefix(p, q) == Len(p) <= Len(q) /\ \A i \in 1..Len(p) : p[i] = q[i]

\* C16: a directory the walk cannot read is skipped and nothing else: the
\* walk ends with its list, which holds nothing from below that directory,
\* still holds the Java files listed beside it, before and after, and those
\* of every later sibling directory the tool walks.
C16_UnreadableDirectoryIsSkippedAlone ==
    Walked
        => /\ result.kind = "files"
           /\ \A listing \in MetListings(fs.proj.entries, ProjectRoot, ExclusionSet(call.tool)) :
                 \A k \in 1..Len(listing.entries) :
                    Unreadable(listing, k, ExclusionSet(call.tool))
                       => /\ \A p \in Returned :
                                ~IsPrefix(Join(listing.path, listing.entries[k].name), p)
                          /\ \A j \in 1..Len(listing.entries) :
                                (listing.entries[j].kind = "file"
                                 /\ EndsWithJava(listing.entries[j].name))
                                   => Join(listing.path, listing.entries[j].name) \in Returned
                          /\ \A j \in (k + 1)..Len(listing.entries) :
                                (listing.entries[j].kind = "dir"
                                 /\ listing.entries[j].readable
                                 /\ listing.entries[j].name \notin ExclusionSet(call.tool))
                                   => JavaFilesIn(listing.entries[j].entries,
                                                  Join(listing.path, listing.entries[j].name),
                                                  ExclusionSet(call.tool)) \subseteq Returned

\* C16 happens: src below src cannot be read; the file found before it and
\* the one of the sibling after it are returned
C16_WalkWentOnPastUnreadable ==
    /\ Walked
    /\ call.tool = "analyze_project_structure"
    /\ fs.proj.entries =
          <<DirEntry("src", TRUE,
                     <<FileEntry("Order.java", TRUE),
                       DirEntry("src", FALSE, <<FileEntry("User.java", TRUE)>>),
                       DirEntry("lib", TRUE, <<FileEntry("Plain.java", TRUE)>>)>>)>>
    /\ result.files = << <<"/proj", "src", "Order.java">>,
                         <<"/proj", "src", "lib", "Plain.java">> >>


(***************************************************************************)
(* The share of interfaces, under SpecAgg                                  *)
(***************************************************************************)

\* interfaces / (classes + interfaces) x 100 of the model, to one decimal
InterfaceShare(analysis) ==
    ToFixed1(JsMul(JsDiv(JsNum(Len(analysis.interfaces)),
                         JsNum(Len(analysis.classes) + Len(analysis.interfaces))),
                   JsNum(100)))

\* C19: where a report renders the share of interfaces (Interface usage in
\* the overview of the documentation, Abstraction Level in the structure
\* report), the value is interfaces / (classes + interfaces) x 100 and so
\* lies between 0 and 100; stated for models with some class, so that no
\* division by zero is involved.
C19_InterfaceShareOfClassesAndInterfaces ==
    (report.ready /\ aggregator \in {"documentation", "structure"})
        => /\ (aggregator = "documentation" /\ Len(report.analysis.classes) > 0)
                => \A i \in 1..Len(report.overview.interfaceUsage) :
                      /\ report.overview.interfaceUsage[i] = InterfaceShare(report.analysis)
                      /\ report.overview.interfaceUsage[i].tenths \in 0..1000
           /\ (aggregator = "structure" /\ Len(report.analysis.classes) > 0)
                => /\ report.architecture.abstractionLevel = InterfaceShare(report.analysis)
                   /\ report.architecture.abstractionLevel.tenths \in 0..1000

(***************************************************************************)
(* The server: requests handled over the five tool instances               *)
(*                                                                         *)
(* A handler runs from the arrival of its request to its first await, and  *)
(* from there on when the awaited promise has settled; between the two,    *)
(* the handlers of other requests run.                                     *)
(***************************************************************************)

\* this.tools: the names of the tools, in the order of construction
ToolNames == <<"analyze_dependencies", "generate_tests", "check_code_quality",
               "generate_documentation", "analyze_project_structure">>

\* inputSchema.required of the tool of that name
RequiredInputs(name) == <<"projectPath">>

\* this.tools.find(t => t.getName() === name): <<>> for undefined
FirstTool(name) == <<ToolNames[1]>>

FindTool(name) ==
    LET hits == {i \in 1..Len(ToolNames) : ToolNames[i] = name}
    IN  IF hits = {} THEN <<>>
        ELSE <<ToolNames[CHOOSE i \in hits : \A j \in hits : i <= j]>>

\* the answer to tools/list
ListToolsResponse ==
    [kind |-> "result",
     tools |-> [i \in 1..Len(ToolNames) |->
                   [name |-> ToolNames[i], required |-> RequiredInputs(ToolNames[i])]]]

\* the handler of tools/call throws before it runs a tool
UnknownTool(name) == [kind |-> "error", message |-> "Unknown tool", name |-> name]

\* the answer to tools/call once execute has settled: isError is <<>> when the
\* answer carries no such field
CallToolResponse(name, outcome) ==
    IF outcome.kind = "rejected"
    THEN [kind |-> "result",
          content |-> <<[type |-> "text",
                         text |-> [kind |-> "text", head |-> "Error executing tool",
                                   name |-> name, message |-> outcome.message]]>>,
          isError |-> <<TRUE>>]
    ELSE [kind |-> "result",
          content |-> <<[type |-> "text", text |-> outcome]>>,
          isError |-> <<>>]

\* execute of DependencyAnalyzer up to its first await, and after it: the
\* build.gradle is looked for once the analysis of the pom.xml has settled
DependencyAnalyzerBegin(f, args) ==
    IF ~args.present THEN Settled(Rejected)
    ELSE IF args.projectPath = Undefined
    THEN Settled(ErrorText("analyzing dependencies",
                           "The \"path\" argument must be of type string"))
    ELSE IF existsSync(f, Join(args.projectPath, "pom.xml"))
    THEN [settled |-> FALSE, pom |-> <<PomDocument(f.pom)>>]
    ELSE Settled(AnalyzeManifests(<<>>, existsSync(f, Join(args.projectPath,
                                                           "build.gradle"))))

DependencyAnalyzerResume(f, args, locals) ==
    IF locals.settled THEN locals.text
    ELSE AnalyzeManifests(locals.pom, existsSync(f, Join(args.projectPath, "build.gradle")))

\* execute of ProjectStructureAnalyzer up to "await this.analyzeProjectStructure",
\* and after it: the directory tree is listed after the await
ProjectStructureAnalyzerBegin(f, args) ==
    LET javaFiles == findJavaFiles(f, args.projectPath, SkipDirsWithTest)
    IN  IF ~args.present THEN Settled(Rejected)
        ELSE IF ~existsSync(f, args.projectPath)
        THEN Settled(Cross("Project path does not exist"))
        ELSE IF javaFiles = <<>> THEN Settled(NoJavaFiles)
        ELSE IF \E i \in 1..Len(javaFiles) : ~CanRead(f, javaFiles[i])
        THEN Settled(ErrorText("analyzing project structure", "EACCES: permission denied"))
        ELSE [settled |-> FALSE, javaFiles |-> javaFiles,
              analysis |-> analyzeProjectStructure(javaFiles)]

ProjectStructureAnalyzerResume(f, args, locals) ==
    IF locals.settled THEN locals.text
    ELSE Report("Project Structure Analysis",
                [projectPath |-> args.projectPath,
                 totalFiles |-> Len(locals.javaFiles),
                 tree |-> generateDirectoryTree(f, args.projectPath),
                 packageAnalysis |-> generatePackageAnalysis(locals.analysis),
                 architecture |-> IF OrDefault(args.includeArchitecture, TRUE)
                                  THEN <<generateArchitectureAnalysis(locals.analysis)>>
                                  ELSE <<>>,
                 metrics |-> IF OrDefault(args.includeMetrics, TRUE)
                             THEN <<generateProjectMetrics(locals.analysis)>>
                             ELSE <<>>])

\* tool.execute(args) up to its first await: what the activation holds there.
\* TestGenerator and CodeQualityChecker read everything before they yield.
ExecuteBegin(tool, f, args) ==
    CASE tool = "analyze_dependencies" -> DependencyAnalyzerBegin(f, args)
      [] tool = "generate_tests" -> Settled(TestGeneratorExecute(f, args))
      [] tool = "check_code_quality" -> Settled(CodeQualityCheckerExecute(f, args))
      [] tool = "generate_documentation" -> DocumentationGeneratorBegin(f, args)
      [] tool = "analyze_project_structure" -> ProjectStructureAnalyzerBegin(f, args)

\* tool.execute(args) from there on: the outcome and the file system it leaves
ExecuteResume(tool, f, required, args, locals) ==
    CASE tool = "analyze_dependencies" ->
             [text |-> DependencyAnalyzerResume(f, args, locals), fs |-> f]
      [] tool = "generate_documentation" ->
             DocumentationGeneratorResume(f, required, args, locals)
      [] tool = "analyze_project_structure" ->
             [text |-> ProjectStructureAnalyzerResume(f, args, locals), fs |-> f]
      [] OTHER -> [text |-> locals.text, fs |-> f]

\* tool.execute(args) with nothing else in between
ExecuteAlone(tool, f, required, args) ==
    CASE tool = "analyze_dependencies" -> DependencyAnalyzerExecute(f, args)
      [] tool = "generate_tests" -> TestGeneratorExecute(f, args)
      [] tool = "check_code_quality" -> CodeQualityCheckerExecute(f, args)
      [] tool = "generate_documentation" ->
             DocumentationGeneratorExecute(f, required, args).text
      [] tool = "analyze_project_structure" -> ProjectStructureAnalyzerExecute(f, args)

\* the requests in flight at once
MaxRequests == 2

Requests == 1..MaxRequests

\* the activation record that holds the locals of execute for request i: each
\* call of execute has its own
SharedByTool(calls, i) ==
    CHOOSE j \in Requests :
        /\ calls[j].method = "tools/call" /\ calls[j].name = calls[i].name
        /\ \A k \in Requests :
               calls[k].method = "tools/call" /\ calls[k].name = calls[i].name => j <= k

ActivationOf(calls, i) == i

SourceRoot == <<"/proj", "src">>

ServerProjects ==
    {p \in Projects :
        /\ p.pom = "valid" /\ p.gradle = "valid"
        /\ \E i \in 1..Len(p.proj.entries) : p.proj.entries[i].name = "Order.java"
        /\ \E i \in 1..Len(p.proj.entries) :
              /\ p.proj.entries[i].name = "src"
              /\ p.proj.entries[i].readable
              /\ Len(p.proj.entries[i].entries) = 1
              /\ p.proj.entries[i].entries[1].name = "User.java"
        /\ \A i \in 1..Len(p.proj.entries) :
              p.proj.entries[i].name \notin {"test", "target", "docs"}}

CallRequests ==
    LET Call(name, args) == [method |-> "tools/call", name |-> name, args |-> args]
    IN  {Call("analyze_dependencies", Present([projectPath |-> ProjectRoot]))}
        \cup {Call("generate_tests",
                   Present([projectPath |-> ProjectRoot, className |-> <<>>,
                            testFramework |-> <<>>]))}
        \cup {Call("check_code_quality",
                   Present([projectPath |-> ProjectRoot, filePath |-> Undefined,
                            includeMetrics |-> <<>>]))}
        \cup {Call("generate_documentation", AbsentArgs),
              Call("generate_documentation",
                   Present([projectPath |-> ProjectRoot, outputPath |-> Undefined,
                            documentationType |-> <<>>, includePrivate |-> <<>>])),
              Call("generate_documentation",
                   Present([projectPath |-> SourceRoot, outputPath |-> OutputRoot,
                            documentationType |-> <<>>, includePrivate |-> <<>>]))}
        \cup {Call("analyze_project_structure",
                   Present([projectPath |-> ProjectRoot, includeArchitecture |-> <<>>,
                            includeMetrics |-> <<>>]))}
        \cup {Call("unknown_tool", Present([projectPath |-> ProjectRoot]))}

\* agg holds the activation records, inputs the file systems each execute has
\* read, report the tools whose execute was called for each request
InitServer ==
    /\ fs \in ServerProjects
    /\ requireDefined \in BOOLEAN
    /\ pc = [i \in Requests |-> "idle"]
    /\ call = [i \in Requests |-> [method |-> "none"]]
    /\ result = [i \in Requests |-> [kind |-> "none"]]
    /\ ParseIdle
    /\ aggregator = "server"
    /\ inputs = [i \in Requests |-> <<>>]
    /\ idx = 0
    /\ agg = [i \in Requests |-> [settled |-> FALSE]]
    /\ report = [i \in Requests |-> <<>>]

\* the handler of tools/list
ListTools(i) ==
    /\ pc[i] = "idle"
    /\ call' = [call EXCEPT ![i] = [method |-> "tools/list"]]
    /\ result' = [result EXCEPT ![i] = ListToolsResponse]
    /\ pc' = [pc EXCEPT ![i] = "done"]
    /\ UNCHANGED <<fs, requireDefined, parseVars, aggVars>>

\* the handler of tools/call for a name no tool has
CallUnknownTool(i) ==
    /\ pc[i] = "idle"
    /\ \E req \in CallRequests :
          /\ FindTool(req.name) = <<>>
          /\ call' = [call EXCEPT ![i] = req]
          /\ result' = [result EXCEPT ![i] = UnknownTool(req.name)]
    /\ pc' = [pc EXCEPT ![i] = "done"]
    /\ UNCHANGED <<fs, requireDefined, parseVars, aggVars>>

\* the handler of tools/call up to the first await of execute
CallTool(i) ==
    /\ pc[i] = "idle"
    /\ \E req \in CallRequests :
          /\ FindTool(req.name) # <<>>
          /\ call' = [call EXCEPT ![i] = req]
          /\ agg' = [agg EXCEPT ![ActivationOf(call', i)] =
                         ExecuteBegin(FindTool(req.name)[1], fs, req.args)]
          /\ report' = [report EXCEPT ![i] = Append(@, FindTool(req.name)[1])]
    /\ inputs' = [inputs EXCEPT ![i] = <<fs>>]
    /\ pc' = [pc EXCEPT ![i] = "awaiting"]
    /\ UNCHANGED <<fs, requireDefined, result, parseVars, aggregator, idx>>

\* the rest of execute and of the handler of tools/call
SettleTool(i) ==
    /\ pc[i] = "awaiting"
    /\ LET tool == FindTool(call[i].name)[1]
           out == ExecuteResume(tool, fs, requireDefined, call[i].args,
                                agg[ActivationOf(call, i)])
       IN  /\ result' = [result EXCEPT ![i] = CallToolResponse(call[i].name, out.text)]
           /\ fs' = out.fs
    /\ inputs' = [inputs EXCEPT ![i] = Append(@, fs)]
    /\ pc' = [pc EXCEPT ![i] = "done"]
    /\ UNCHANGED <<requireDefined, call, parseVars, aggregator, idx, agg, report>>

NextServer ==
    \E i \in Requests :
        \/ ListTools(i)
        \/ CallUnknownTool(i)
        \/ CallTool(i)
        \/ SettleTool(i)

SpecServer == InitServer /\ [][NextServer]_vars

(***************************************************************************)
(* Properties of the server, under SpecServer                              *)
(***************************************************************************)

\* the outcome of execute on the file systems it has read: seen[1] before its
\* await, seen[2] after it, with an activation record of its own
ExecuteOn(tool, required, args, seen) ==
    ExecuteResume(tool, seen[2], required, args, ExecuteBegin(tool, seen[1], args)).text

RegisteredNames ==
    {"analyze_dependencies", "generate_tests", "check_code_quality",
     "generate_documentation", "analyze_project_structure"}

\* C20: a tools/call request that names one of the five registered tools runs
\* the execute of that tool, once, and is answered by one text content item
\* that holds the result, isError being set only if execute rejected; for any
\* other name no tool is executed and the request fails with an "Unknown tool"
\* error.  tools/list is answered by the five tools, each with projectPath as
\* its only required input.
DispatchedAsNamed(i) ==
    /\ pc[i] = "idle" /\ call'[i].method = "tools/list"
          => /\ pc'[i] = "done"
             /\ result'[i].kind = "result"
             /\ Len(result'[i].tools) = Cardinality(RegisteredNames)
             /\ {result'[i].tools[k].name : k \in 1..Len(result'[i].tools)}
                    = RegisteredNames
             /\ \A k \in 1..Len(result'[i].tools) :
                    result'[i].tools[k].required = <<"projectPath">>
             /\ report'[i] = <<>>
    /\ pc[i] = "idle" /\ call'[i].method = "tools/call"
          => IF call'[i].name \in RegisteredNames
             THEN /\ pc'[i] = "awaiting"
                  /\ report'[i] = <<call'[i].name>>
             ELSE /\ pc'[i] = "done"
                  /\ report'[i] = <<>>
                  /\ result'[i].kind = "error"
                  /\ result'[i].message = "Unknown tool"
    /\ pc[i] = "awaiting" /\ pc'[i] = "done"
          => /\ report'[i] = <<call[i].name>>
             /\ result'[i].kind = "result"
             /\ Len(result'[i].content) = 1
             /\ result'[i].content[1].type = "text"
             /\ LET outcome == ExecuteOn(call[i].name, requireDefined, call[i].args,
                                         inputs'[i])
                IN  IF outcome.kind = "rejected"
                    THEN result'[i].isError = <<TRUE>>
                    ELSE /\ result'[i].isError = <<>>
                         /\ result'[i].content[1].text = outcome
    /\ pc[i] = "awaiting" /\ pc'[i] = "awaiting" => report'[i] = report[i]
    /\ pc[i] = "done"
          => /\ pc'[i] = "done" /\ call'[i] = call[i]
             /\ report'[i] = report[i] /\ result'[i] = result[i]

C20_DispatchRunsTheNamedToolOnce == [][\A i \in Requests : DispatchedAsNamed(i)]_vars

\* a call whose execute rejected and a call of a name that no tool has have
\* both been answered
C20_RejectedAndUnknownAnswered ==
    \E i, j \in Requests :
        /\ pc[i] = "done" /\ pc[j] = "done"
        /\ call[i].method = "tools/call" /\ call[i].name = "generate_documentation"
        /\ ~call[i].args.present
        /\ result[i].kind = "result" /\ result[i].isError = <<TRUE>>
        /\ call[j].method = "tools/call" /\ call[j].name = "unknown_tool"
        /\ result[j].kind = "error"

\* C18: however the invocations interleave, the activation record of an
\* invocation holds what that invocation built from the file system it read,
\* no step of another invocation changes it, and the answer is the answer of
\* running the invocation alone on the file systems it read.
BuiltAndAnsweredAlone(i) ==
    /\ pc[i] = "idle" /\ pc'[i] = "awaiting"
          => agg'[i] = ExecuteBegin(call'[i].name, fs, call'[i].args)
    /\ pc[i] = "awaiting" => agg'[i] = agg[i]
    /\ pc[i] = "awaiting" /\ pc'[i] = "done"
          => /\ inputs'[i] = <<inputs[i][1], fs>>
             /\ result'[i] = CallToolResponse(call[i].name,
                    ExecuteOn(call[i].name, requireDefined, call[i].args, inputs'[i]))
             /\ inputs[i][1] = fs
                   => result'[i] = CallToolResponse(call[i].name,
                          ExecuteAlone(call[i].name, fs, requireDefined, call[i].args))

C18_InvocationsShareNoMemory == [][\A i \in Requests : BuiltAndAnsweredAlone(i)]_vars

\* two documentation runs on different directories overlapped: one began
\* before the other had written its documents and went on after it had, and
\* both were answered with a report
C18_OverlappingRunsAnswered ==
    \E i, j \in Requests :
        /\ pc[i] = "done" /\ pc[j] = "done"
        /\ call[i].method = "tools/call" /\ call[j].method = "tools/call"
        /\ call[i].name = "generate_documentation"
        /\ call[j].name = "generate_documentation"
        /\ result[i].kind = "result" /\ result[i].content[1].text.head = "heading"
        /\ result[j].kind = "result" /\ result[j].content[1].text.head = "heading"
        /\ call[i].args.projectPath = ProjectRoot
        /\ call[j].args.projectPath = SourceRoot
        /\ inputs[j][1] = inputs[i][1]
        /\ inputs[i][2] = inputs[i][1]
        /\ inputs[j][2] # inputs[j][1]
        /\ fs # inputs[j][2]

(***************************************************************************)
(* SpecTree: the directory tree of the structure report                    *)
(***************************************************************************)

\* the directories nested one in the other below the project
MaxNesting == 5

\* files named by their number
NumberedFiles(n) == [i \in 1..n |-> FileEntry(ToString(i), TRUE)]

\* a directory "d" of so many files that holds, first or last, the next
\* directory "d" of a chain of the given length
RECURSIVE NestedDirs(_, _, _)
NestedDirs(length, width, first) ==
    IF length = 0 THEN <<>>
    ELSE <<DirEntry("d", TRUE,
                    IF first
                    THEN NestedDirs(length - 1, width, first) \o NumberedFiles(width)
                    ELSE NumberedFiles(width) \o NestedDirs(length - 1, width, first))>>

TreeProjects ==
    {[proj |-> DirEntry("/proj", readable,
                        (IF excluded THEN <<DirEntry("target", TRUE, NumberedFiles(1))>>
                         ELSE <<>>)
                        \o (IF first
                            THEN NestedDirs(length, width, first) \o NumberedFiles(files)
                            ELSE NumberedFiles(files) \o NestedDirs(length, width, first)))] :
        readable \in BOOLEAN,
        excluded \in BOOLEAN,
        first \in BOOLEAN,
        length \in 0..MaxNesting,
        width \in {0, SubEntriesShown - 1, SubEntriesShown, SubEntriesShown + 1},
        files \in {TreeEntriesShown - 1, TreeEntriesShown, TreeEntriesShown + 1}}

InitTree ==
    /\ fs \in TreeProjects
    /\ requireDefined = TRUE
    /\ pc = "idle"
    /\ call = [tool |-> "none"]
    /\ result = [kind |-> "none"]
    /\ ParseIdle
    /\ AggIdle

\* generateDirectoryTree(projectPath) of the structure report
DrawTree ==
    /\ pc = "idle"
    /\ call' = [tool |-> "analyze_project_structure"]
    /\ result' = [kind |-> "tree", tree |-> generateDirectoryTree(fs, ProjectRoot)]
    /\ pc' = "done"
    /\ UNCHANGED <<fs, requireDefined, parseVars, aggVars>>

NextTree == DrawTree

SpecTree == InitTree /\ [][NextTree]_vars

\* the lines of the tree that are no entry of a directory
NoteNames == {"showing first 20 entries", "more entries", "Unable to read directory structure"}

\* the lines that list an entry so many directories below the project
EntryLines(k) ==
    {i \in 1..Len(result.tree) :
        result.tree[i].depth = k /\ result.tree[i].name \notin NoteNames}

\* the entries of a directory that the display does not leave out
Displayable(dir) ==
    SelectSeq(dir.entries, LAMBDA e : e.name \notin ExclusionSet("analyze_project_structure"))

\* the directory whose entries lie k directories below the project
RECURSIVE LevelDir(_)
LevelDir(k) ==
    IF k = 0 THEN fs.proj
    ELSE LET above == LevelDir(k - 1)
             hits == {i \in 1..Len(above.entries) : above.entries[i].name = "d"}
         IN  IF hits = {} THEN Missing ELSE above.entries[CHOOSE i \in hits : TRUE]

ShownAt(k) == IF k = 0 THEN 20 ELSE 10

\* the entries of that directory are listed: it is read, and it is itself
\* listed no deeper than the display goes
RECURSIVE LevelListed(_)
LevelListed(k) ==
    IF k = 0 THEN fs.proj.readable
    ELSE /\ LevelListed(k - 1)
         /\ LevelDir(k).kind = "dir" /\ LevelDir(k).readable
         /\ k <= 3
         /\ \E i \in 1..Len(Displayable(LevelDir(k - 1))) :
               Displayable(LevelDir(k - 1))[i].name = "d" /\ i <= ShownAt(k - 1)

\* the truncation notes of the level k
LevelNotes(k) ==
    {i \in 1..Len(result.tree) :
        IF k = 0 THEN result.tree[i].name = "showing first 20 entries"
        ELSE result.tree[i].name = "more entries" /\ result.tree[i].depth = k - 1}

\* C21: the tree shows at most 20 entries of the project and at most 10 of
\* each nested directory, lists no entry deeper than the display depth of 3
\* (counted as the code counts it, the entries of the project being at depth
\* 0), and closes a listed level with a truncation note exactly when the
\* level has more entries that are not excluded than are shown.
C21_TreeIsBoundedAndNotesTruncation ==
    pc = "done"
        => \A k \in 0..(MaxNesting + 1) :
              /\ Cardinality(EntryLines(k)) <= ShownAt(k)
              /\ k > 3 => EntryLines(k) = {}
              /\ LevelListed(k)
                    => /\ Cardinality(EntryLines(k))
                            = (IF Len(Displayable(LevelDir(k))) > ShownAt(k)
                               THEN ShownAt(k) ELSE Len(Displayable(LevelDir(k))))
                       /\ LevelNotes(k) # {} <=> Len(Displayable(LevelDir(k))) > ShownAt(k)
                       /\ Cardinality(LevelNotes(k)) <= 1
                       /\ \A i \in LevelNotes(k) :
                              k > 0 => result.tree[i].more
                                           = Len(Displayable(LevelDir(k))) - ShownAt(k)
              /\ ~LevelListed(k) => LevelNotes(k) = {}

\* a project of 22 displayable entries and five nested directories of 11
\* each has been drawn, an excluded directory beside them
C21_WideAndDeepTreeDrawn ==
    /\ pc = "done" /\ result.kind = "tree"
    /\ Len(fs.proj.entries) = 23
    /\ Len(Displayable(fs.proj)) = 22
    /\ LevelDir(4).kind = "dir" /\ Len(LevelDir(4).entries) = 12
    /\ LevelListed(3) /\ ~LevelListed(4)
    /\ Cardinality(EntryLines(3)) = 10
    /\ LevelNotes(0) # {} /\ LevelNotes(3) # {}

(***************************************************************************)
(* SpecPackage: the parsers over files that open with a package line       *)
(***************************************************************************)

LPackageComment == <<"package", " ", "com", ".", "example", ";", " ", "//", " ", "model">>
LPackageImport  == <<"package", " ", "com", ".", "example", ";", " ",
                     "import", " ", "java", ".", "util", ".", "List", ";">>
LPackageIndent  == <<" ", "package", " ", "com", ".", "example", ";", " ">>
LPackageOpen    == <<"package", " ", "com", ".", "example">>
LPackageTwice   == <<"package", " ", "com", ".", "example", ";", ";">>

PackageLines == {LPackage, LPackageComment, LPackageImport, LPackageIndent,
                 LPackageOpen, LPackageTwice}

PackageFiles ==
    [prefix : {<<>>, <<LLineComment>>},
     package : PackageLines,
     rest : {<<>>, <<LImport>>, <<LClassUser>>, <<LImport, LClassUser, LCloseBrace>>}]

InitPackage ==
    /\ parser \in Parsers
    /\ parts \in PackageFiles
    /\ src = parts.prefix \o <<parts.package>> \o parts.rest
    /\ pos = 1
    /\ rec = ParserInit(parser)
    /\ ToolIdle
    /\ AggIdle

SpecPackage == InitPackage /\ [][NextParse]_vars

\* the tokens of a text that stand before the first token of that kind
BeforeFirst(s, tok) ==
    LET hits == {i \in 1..Len(s) : s[i] = tok}
    IN  IF hits = {} THEN s
        ELSE SubSeq(s, 1, (CHOOSE i \in hits : \A j \in hits : i <= j) - 1)

\* the text between the package keyword and the first semicolon of the line
DeclaredPackage(line) ==
    Trim(BeforeFirst(SubSeq(TrimStart(line), 3, Len(TrimStart(line))), ";"))

\* C22: once a file with a package line is parsed, packageName is the text
\* between the package keyword and the first semicolon of that line: nothing
\* that follows the first semicolon is part of it.
C22_PackageNameEndsAtFirstSemicolon ==
    (ParseDone /\ parts \in PackageFiles)
        => (IF parser = "tests" THEN rec.packageName ELSE rec.package)
               = DeclaredPackage(parts.package)

(***************************************************************************)
(* Further properties of the smells, under SpecSmell                       *)
(***************************************************************************)

\* the line is a comment: a line comment, or a line of a block or Javadoc
\* comment
CommentLine(line) == "line comment" \in line.has \/ "*" \in line.has

ImportLine(line) == "import line" \in line.has

\* C23: a magic number is reported for a line exactly when the line holds an
\* integer literal of three digits or more and is neither a comment line nor
\* an import line: never for a comment line, always for a code line with such
\* a literal.
C23_MagicNumberIffLiteralOutsideComments ==
    (parser = "smells" /\ pos = Len(src))
        => \A n \in 1..Len(src) :
              SmellCount("Magic Number", n) > 0
                  <=> /\ "number" \in src[n].has
                      /\ ~CommentLine(src[n])
                      /\ ~ImportLine(src[n])

\* the lines, two at most, that follow line n in the file
FollowingLines(n) == {m \in {n + 1, n + 2} : m <= Len(src)}

\* C24: an empty catch block is reported at a line that holds catch exactly
\* when each of the lines that follow it, two at most, is blank or a lone
\* closing brace, also when only one line follows before the file ends.
C24_EmptyCatchIffNextLinesAreEmpty ==
    (parser = "smells" /\ pos = Len(src))
        => \A n \in 1..Len(src) :
              ("catch" \in src[n].has /\ FollowingLines(n) # {})
                  => (SmellCount("Empty Catch Block", n) = 1
                         <=> \A m \in FollowingLines(n) :
                                src[m].text = 0 \/ "}" \in src[m].has)

(***************************************************************************)
(* The running totals of the packages, under SpecAgg                       *)
(***************************************************************************)

\* the records a package holds, in the lists of the three kinds
MemberRecords(pkg) == pkg.classes \o pkg.interfaces \o pkg.enums

MethodCount(record) == Len(record.methods)

FieldCount(record) == Len(record.fields)

\* C25: while and after a list of files is folded, the method total of every
\* package is the sum of the method counts of the records the package holds
\* and its field total the sum of their field counts; in the structure
\* aggregator the fileCount of a package is the number of records in its
\* classes, interfaces and enums.
C25_PackageTotalsAreSumsOverMembers ==
    /\ aggregator = "documentation"
          => \A k \in 1..Len(agg.packages) :
                agg.packages[k].methods
                    = SumOver(MemberRecords(agg.packages[k]), MethodCount)
    /\ aggregator = "structure"
          => \A k \in 1..Len(agg.packages) :
                /\ agg.packages[k].totalMethods
                       = SumOver(MemberRecords(agg.packages[k]), MethodCount)
                /\ agg.packages[k].totalFields
                       = SumOver(MemberRecords(agg.packages[k]), FieldCount)
                /\ agg.packages[k].fileCount
                       = Len(agg.packages[k].classes) + Len(agg.packages[k].interfaces)
                             + Len(agg.packages[k].enums)

\* the structure aggregator has folded a class with a field and a method and
\* an interface with a method into one package
C25_TwoKindsFoldedIntoOnePackage ==
    /\ aggregator = "structure"
    /\ idx = Len(inputs) + 1
    /\ \E k \in 1..Len(agg.packages) :
          /\ Len(agg.packages[k].classes) = 1
          /\ Len(agg.packages[k].interfaces) = 1
          /\ agg.packages[k].totalMethods = 2
          /\ agg.packages[k].totalFields = 1
          /\ agg.packages[k].fileCount = 2

(***************************************************************************)
(* SpecMetrics: calculateMetrics over the methods of a class               *)
(***************************************************************************)

\* the most methods of a class, and the most statements of a method
MaxMethods == 2

MaxStatements == 2

\* a method: its signature line, so many statements, and the closing brace
\* where it has one (the next signature or the end of the file ends it
\* otherwise)
MethodShapes == [statements : 0..MaxStatements, closed : BOOLEAN]

RECURSIVE Repeat(_, _)
Repeat(line, n) == IF n = 0 THEN <<>> ELSE <<line>> \o Repeat(line, n - 1)

MethodLines(shape) ==
    <<LMethod>> \o Repeat(LStatement, shape.statements)
        \o (IF shape.closed THEN <<LCloseBrace>> ELSE <<>>)

RECURSIVE MethodsLines(_)
MethodsLines(shapes) ==
    IF shapes = <<>> THEN <<>> ELSE MethodLines(Head(shapes)) \o MethodsLines(Tail(shapes))

MethodFiles == UNION {[1..n -> MethodShapes] : n \in 0..MaxMethods}

InitMetrics ==
    /\ parser = "metrics"
    /\ parts \in MethodFiles
    /\ src = <<LClassUser>> \o MethodsLines(parts)
    /\ pos = 1
    /\ rec = MetricsInit
    /\ ToolIdle
    /\ AggIdle

\* one pass of the loop of calculateMetrics
MeasureLine ==
    /\ parser = "metrics"
    /\ pos <= Len(src)
    /\ rec' = MetricsLine(rec, src[pos])
    /\ pos' = pos + 1
    /\ UNCHANGED <<parser, src, parts, toolVars, aggVars>>

\* what calculateMetrics returns once the loop is over
ReturnMetrics ==
    /\ parser = "metrics"
    /\ pos = Len(src) + 1
    /\ rec' = MetricsReturn(rec)
    /\ pos' = pos + 1
    /\ UNCHANGED <<parser, src, parts, toolVars, aggVars>>

NextMetrics == MeasureLine \/ ReturnMetrics

SpecMetrics == InitMetrics /\ [][NextMetrics]_vars

\* the lines of a method, from its signature to the line that closes it
MethodLength(shape) == 1 + shape.statements + (IF shape.closed THEN 1 ELSE 0)

\* C26: the length of every counted method enters totalMethodLength once,
\* however the method ends, so that avgMethodLength is the mean length of the
\* counted methods and is greater than 0 whenever methodCount is.
C26_AverageIsTheMeanMethodLength ==
    (parser = "metrics" /\ pos = Len(src) + 2)
        => /\ rec.methodCount = Len(parts)
           /\ rec.avgMethodLength.kind = "finite"
           /\ rec.methodCount > 0
                 => /\ rec.avgMethodLength.num * rec.methodCount
                           = SumOver(parts, MethodLength) * rec.avgMethodLength.den
                    /\ rec.avgMethodLength.num > 0

(***************************************************************************)
(* Further properties of the tools, under Spec                             *)
(***************************************************************************)

\* the package lines of a file
PackageLinesOf(lines) ==
    SelectSeq(lines, LAMBDA line : Len(TrimStart(line)) > 1
                                      /\ TrimStart(line)[1] = "package"
                                      /\ TrimStart(line)[2] = " ")

\* the report of generate_tests for one class
ClassTestReport ==
    /\ pc = "done"
    /\ call.tool = "generate_tests"
    /\ result.kind = "text" /\ result.head = "heading"
    /\ result.message = "Test Generation for class"

\* C27: the Package line of the report of generate_tests for a named class
\* shows the package the file of the class declares, and "default" only when
\* the file declares none.
C27_ReportShowsTheDeclaredPackage ==
    ClassTestReport
        => LET declared == PackageLinesOf(ReadLines(result.detail.file))
           IN  result.detail.package
                   = IF declared = <<>> THEN <<"default">>
                     ELSE DeclaredPackage(declared[Len(declared)])

\* the report of generate_documentation
DocumentationReport ==
    /\ pc = "done"
    /\ call.tool = "generate_documentation"
    /\ result.kind = "text" /\ result.head = "heading"
    /\ result.message = "Documentation Generation"

\* C28: the files the text of generate_documentation lists under "Generated
\* Files" are the files written during the call: a file is listed exactly
\* when its document was selected by documentationType and saved.
C28_ListedFilesAreTheWrittenFiles ==
    DocumentationReport
        => {result.detail.listed[i] : i \in 1..Len(result.detail.listed)}
               = {d \in DocumentPaths : fs.documents[d] # <<>>}

\* the documents a documentationType selects
SelectsDocument(args) ==
    OrDefault(args.documentationType, "all") \in {"all", "overview", "api", "javadoc"}

\* C29: a tool invocation changes the file system only if it is a
\* generate_documentation call that found at least one Java file, whose
\* documentationType selects a document and that did not fail: the other
\* four tools, and a documentation call that finds no Java file, selects
\* nothing or fails before saving, leave every directory and file as it was.
C29_OnlyASavingDocumentationCallWrites ==
    [][fs' # fs =>
          /\ call'.tool = "generate_documentation"
          /\ call'.args.present
          /\ findJavaFiles(fs, call'.args.projectPath, SkipDirsWithTest) # <<>>
          /\ SelectsDocument(call'.args)
          /\ result'.head = "heading"]_vars

\* a documentation call made the directory docs and wrote one document there
C29_DirectoryMadeAndDocumentWritten ==
    /\ pc = "done"
    /\ call.tool = "generate_documentation"
    /\ call.args.present
    /\ call.args.documentationType = <<"api">>
    /\ call.args.outputPath = Undefined
    /\ requireDefined
    /\ Resolve(fs, Join(ProjectRoot, "docs")).entries
           = <<FileEntry(DocumentNames[2], TRUE)>>
    /\ fs.documents[Join(Join(ProjectRoot, "docs"), DocumentNames[2])] # <<>>

(***************************************************************************)
(* SpecFile: check_code_quality is called with a filePath                  *)
(***************************************************************************)

\* the projects the file is looked up in
FileProjects ==
    {p \in Projects : p.pom # "malformed" /\ p.gradle = "none"} \cup {LockedProject}

\* the paths given as projectPath: the project, the directory src of the
\* project, a directory outside it, one that does not exist, or none
FileProjectPaths == ProjectPaths \cup {Join(ProjectRoot, "src"), OutputRoot}

\* the paths given as filePath: Java files in src, in the excluded
\* directories target and test, a file that is no Java file, a file that
\* cannot be read, a directory and a path outside the project
FilePaths ==
    {Join(Join(ProjectRoot, "src"), "User.java"),
     Join(Join(ProjectRoot, "src"), "Locked.java"),
     Join(Join(ProjectRoot, "target"), "User.java"),
     Join(Join(ProjectRoot, "test"), "UserTest.java"),
     Join(ProjectRoot, "pom.xml"),
     Join(ProjectRoot, "src"),
     Join(OutputRoot, "User.java")}

FileArgs ==
    {Present([projectPath |-> p, filePath |-> file, includeMetrics |-> m]) :
        p \in FileProjectPaths, file \in FilePaths, m \in {<<>>, <<TRUE>>, <<FALSE>>}}

InitFile ==
    /\ fs \in FileProjects
    /\ requireDefined = TRUE
    /\ pc = "idle"
    /\ call = [tool |-> "none"]
    /\ result = [kind |-> "none"]
    /\ ParseIdle
    /\ AggIdle

ExecuteOnFile ==
    /\ pc = "idle"
    /\ \E args \in FileArgs :
          /\ call' = [tool |-> "check_code_quality", args |-> args]
          /\ result' = CodeQualityCheckerExecute(fs, args)
    /\ pc' = "done"
    /\ UNCHANGED <<fs, requireDefined, parseVars, aggVars>>

NextFile == ExecuteOnFile

SpecFile == InitFile /\ [][NextFile]_vars

\* check_code_quality returned from a call that named a file
CalledOnFile ==
    /\ pc = "done"
    /\ call.tool = "check_code_quality"
    /\ call.args.present
    /\ call.args.filePath # Undefined

\* C30: with a filePath, check_code_quality never reads projectPath: the call
\* returns what it returns with any other projectPath, and a file that can
\* be read is analysed, with the detailed metrics that includeMetrics asks
\* for, whether or not it lies under projectPath, ends in .java or is in an
\* excluded directory.
C30_FileResultIgnoresProjectPath ==
    CalledOnFile =>
        /\ \A p \in FileProjectPaths :
              CodeQualityCheckerExecute(fs, [call.args EXCEPT !.projectPath = p]) = result
        /\ CanRead(fs, call.args.filePath) =>
              /\ result.head = "heading"
              /\ result.message = "Code Quality Analysis"
              /\ result.detail.file = call.args.filePath
              /\ result.detail.linesOfCode
                     = calculateMetrics(ReadLines(call.args.filePath)).linesOfCode
              /\ result.detail.detailed = OrDefault(call.args.includeMetrics, TRUE)

\* a Java file in the excluded directory target is analysed by a call whose
\* projectPath does not exist
C30_ExcludedFileOutsideProjectPathAnalysed ==
    /\ CalledOnFile
    /\ call.args.projectPath = <<"/nowhere">>
    /\ call.args.filePath = Join(Join(ProjectRoot, "target"), "User.java")
    /\ result.head = "heading"
    /\ result.detail.linesOfCode > 0

====
